---- MODULE Spec2Model ----
(***************************************************************************)
(* Order lifecycle, payment settlement and wallet ledger of be-bantuin.    *)
(*                                                                         *)
(* The database is the committed state.  Every request handler is a        *)
(* process that moves through the statements of its code: a read outside   *)
(* a transaction and the write that follows it are separate steps, a       *)
(* prisma.$transaction holds the row locks of its UPDATE statements until  *)
(* it commits (PostgreSQL READ COMMITTED), and its writes become visible   *)
(* in one step at commit.                                                  *)
(***************************************************************************)
EXTENDS Integers, Sequences, FiniteSets, TLC

\* ---------------------------------------------------------------- bounds
MaxRevisions == 1         \* Service.revisions of the one service on sale
MaxWebhookUpdates == 2    \* webhook deliveries applied to one Payment row
MaxPayoutRequests == 2    \* PayoutRequest rows ever created
MaxApprovals == 2         \* approvePayout calls served
MaxCompletions == 2       \* completions of an order before resolveDispute
                          \* is called no more

\* ------------------------------------------------------ program constants
MinPayout == 50000
PlatformFeePercent == 10

\* ------------------------------------------------------------- the world
Procs == {"p1", "p2"}
Orders == {"o1"}
Buyer == "buyer"
Seller == "seller"
Users == {Buyer, Seller}
ServicePrices == {100000}
ServiceIds == {"s1", "s0"}   \* "s1" is the Service row, "s0" names no row
Deadlines == {"none", "past", "future"}   \* dto.customDeadline against now
RevisionNotesIn == {"note"}

\* the bodies of the service update requests (UpdateServiceDto, every field
\* optional)
ServiceUpdates ==
  { [title |-> "t2", price |-> 150000, deliveryTime |-> 5, revisions |-> 0] }
PayoutAmounts == {40000, 50000}
AccountIds == {"a1", "a2"}
NoOrder == "-"

OrderStatus ==
  {"DRAFT", "WAITING_PAYMENT", "PAID_ESCROW", "IN_PROGRESS", "DELIVERED",
   "REVISION", "COMPLETED", "CANCELLED", "DISPUTED", "RESOLVED"}

TerminalStatus == {"COMPLETED", "CANCELLED", "RESOLVED"}

\* the webhook payloads: (transaction_status, fraud_status)
Payloads ==
  { [ts |-> "settlement", fraud |-> "accept", signature_key |-> "hmac"],
    [ts |-> "capture", fraud |-> "accept", signature_key |-> "hmac"],
    [ts |-> "capture", fraud |-> "challenge", signature_key |-> "hmac"],
    [ts |-> "cancel", fraud |-> "accept", signature_key |-> "hmac"],
    [ts |-> "deny", fraud |-> "accept", signature_key |-> "hmac"],
    [ts |-> "expire", fraud |-> "accept", signature_key |-> "hmac"],
    [ts |-> "pending", fraud |-> "accept", signature_key |-> "hmac"] }

NotificationKinds ==
  {"ORDER_NEW", "ORDER_PAID", "ORDER_DELIVERED", "PAYOUT_REJECTED",
   "PAYOUT_APPROVED", "DISPUTE"}

VARIABLES
  service,        \* the Service row "s1"
  sellerStats,    \* User.totalOrdersCompleted of the seller
  order,          \* Orders -> Order row (status "ABSENT" before creation)
  payment,        \* Orders -> Payment row (status "NONE" when there is no row)
  dispute,        \* Orders -> Dispute row (status "NONE" when there is no row)
  wallet,         \* Users -> Wallet row
  ledger,         \* Users -> sequence of WalletTransaction rows of the wallet
  payouts,        \* sequence of PayoutRequest rows
  accounts,       \* AccountIds -> PayoutAccount row
  notifications,  \* NotificationKinds -> number of Notification rows
  events,         \* Orders -> payment.settled events emitted, not yet handled
  locks,          \* row locks held by open transactions: <<row, process>>
  sink,           \* what a write to the notification sink does at present
  sigLogged,      \* the webhook handler has logged a signature mismatch
  pc,             \* Procs -> position of the request the process is serving
  local           \* Procs -> local variables of that request

vars ==
  <<service, sellerStats, order, payment, dispute, wallet, ledger, payouts,
    accounts, notifications, events, locks, sink, sigLogged, pc, local>>

dbVars ==
  <<service, sellerStats, order, payment, dispute, wallet, ledger, payouts,
    accounts, notifications>>

NoLocal ==
  [op |-> "none", o |-> NoOrder, u |-> Buyer, amount |-> 0, type |-> "none",
   balanceBefore |-> 0, payoutId |-> 0, resolution |-> "NONE",
   newStatus |-> "NONE", error |-> "none", role |-> "none",
   isActive |-> FALSE, note |-> "-", accountId |-> "-"]

\* updates: the payment.update calls of the webhook applied to the row (each
\* writes transactionId, paymentType and updatedAt = new Date())
NoAccount == [exists |-> FALSE, userId |-> "-"]

NoPayment == [status |-> "NONE", updates |-> 0]

AbsentOrder ==
  [status |-> "ABSENT", isPaid |-> FALSE, serviceId |-> "-",
   buyerId |-> "-", title |-> "-",
   price |-> 0, deliveryTime |-> 0, maxRevisions |-> 0, dueDate |-> "-",
   revisionCount |-> 0, revisionNotes |-> << >>]

\* the Service row as the seller created it
InitialService ==
  [sellerId |-> Seller, title |-> "t1",
   price |-> CHOOSE x \in ServicePrices : TRUE, deliveryTime |-> 3,
   revisions |-> MaxRevisions, isActive |-> TRUE, status |-> "ACTIVE",
   totalOrders |-> 0]

\* the state after construction, the Service row being svc
InitWith(svc) ==
  /\ service = svc
  /\ sellerStats = 0
  /\ order = [o \in Orders |-> AbsentOrder]
  /\ payment = [o \in Orders |-> NoPayment]
  /\ dispute = [o \in Orders |-> [status |-> "NONE", resolution |-> "NONE"]]
  /\ wallet = [u \in Users |-> [exists |-> FALSE, balance |-> 0]]
  /\ ledger = [u \in Users |-> << >>]
  /\ payouts = << >>
  /\ accounts = [a \in AccountIds |-> NoAccount]
  /\ notifications = [k \in NotificationKinds |-> 0]
  /\ events = [o \in Orders |-> 0]
  /\ locks = {}
  /\ sink = "up"
  /\ sigLogged = FALSE
  /\ pc = [p \in Procs |-> "idle"]
  /\ local = [p \in Procs |-> NoLocal]

Init == InitWith(InitialService)

\* ------------------------------------------------------------- helpers
OrderRow(o) == <<"order", o>>
DisputeRow(o) == <<"dispute", o>>
PayoutRow(i) == <<"payout", i>>

\* no other transaction holds an UPDATE lock on one of the rows
RowsFree(rows, p) == \A l \in locks : l[1] \in rows => l[2] = p

LockRows(rows, p) == locks \cup {<<r, p>> : r \in rows}

ReleaseAll(p) == {l \in locks : l[2] # p}

Notify(kind, n) == [notifications EXCEPT ![kind] = @ + n]

\* what a call of the notification sink meets: "up", the row is written;
\* "throws", the call throws before a statement reaches the database;
\* "statement_fails", the INSERT fails in the database
SinkStates == {"up", "throws", "statement_fails"}

\* NotificationsService.create and createInTx: the row is written, or the
\* error is caught and logged
Created(kind, n) == IF sink = "up" THEN Notify(kind, n) ELSE notifications

\* createInTx inside an open transaction: a statement that fails in the
\* database leaves the transaction aborted, whoever catches the error
AbortsTx == sink = "statement_fails"

\* the requests whose transaction calls createInTx
NotifiesInTx(l) == l.op \in {"settle", "reject", "refund", "release"}

\* the request of p ends (response sent or exception thrown)
Finish(p) ==
  /\ pc' = [pc EXCEPT ![p] = "idle"]
  /\ local' = [local EXCEPT ![p] = NoLocal]

Goto(p, label, loc) ==
  /\ pc' = [pc EXCEPT ![p] = label]
  /\ local' = [local EXCEPT ![p] = loc]

\* an exception thrown before the request has written anything: the
\* request is answered with the error
Throw(p, op, o, role, error) ==
  Goto(p, "rejected",
       [NoLocal EXCEPT !.op = op, !.o = o, !.role = role, !.error = error])

Reject(p) ==
  /\ pc[p] = "rejected"
  /\ Finish(p)
  /\ UNCHANGED <<dbVars, events, locks>>
  /\ UNCHANGED <<sink, sigLogged>>

\* ------------------------------------------------- OrdersService.create
\* the validations of create, in the order of the code
ServiceAvailableM(svc) == TRUE

ServiceAvailable(svc) == svc.isActive /\ svc.status = "ACTIVE"

DeadlineInPast(deadline) == deadline = "past"

CreateError(buyerId, serviceId, deadline) ==
  IF serviceId # "s1" THEN "NotFound"
  ELSE IF ~ServiceAvailable(service) THEN "ServiceUnavailable"
  ELSE IF service.sellerId = buyerId THEN "OwnService"
  ELSE IF deadline # "none" /\ DeadlineInPast(deadline) THEN "PastDeadline"
  ELSE "none"

\* the Order row create inserts: snapshot of the service, DRAFT
NewOrder(buyerId, serviceId, deadline) ==
  [status |-> "DRAFT", isPaid |-> FALSE, serviceId |-> serviceId,
   buyerId |-> buyerId,
   title |-> service.title, price |-> service.price,
   deliveryTime |-> service.deliveryTime,
   maxRevisions |-> service.revisions,
   dueDate |-> IF deadline # "none" THEN deadline ELSE "computed",
   revisionCount |-> 0, revisionNotes |-> << >>]

Create(p, o, buyerId, serviceId, deadline) ==
  /\ pc[p] = "idle"
  /\ order[o].status = "ABSENT"
  /\ IF CreateError(buyerId, serviceId, deadline) # "none"
       THEN /\ Throw(p, "create", o, "buyer",
                     CreateError(buyerId, serviceId, deadline))
            /\ UNCHANGED <<order, notifications>>
       ELSE /\ order' = [order EXCEPT ![o] = NewOrder(buyerId, serviceId, deadline)]
            /\ notifications' = Created("ORDER_NEW", 1)
            /\ UNCHANGED <<pc, local>>
  /\ UNCHANGED <<service, sellerStats, payment, dispute, wallet, ledger,
                 payouts, events, locks>>
  /\ UNCHANGED <<accounts, sink, sigLogged>>

\* ------------------------------------------------ ServicesService.update
\* prisma.service.update({ data: dto }): the fields of the body replace
\* those of the row
ApplyDto(svc, dto) ==
  [f \in DOMAIN svc |-> IF f \in DOMAIN dto THEN dto[f] ELSE svc[f]]

UpdateService(p, sellerId, dto) ==
  /\ pc[p] = "idle"
  /\ IF service.sellerId # sellerId
       THEN /\ Throw(p, "service", NoOrder, "seller", "Forbidden")
            /\ UNCHANGED service
       ELSE /\ service' = ApplyDto(service, dto)
            /\ UNCHANGED <<pc, local>>
  /\ UNCHANGED <<sellerStats, order, payment, dispute, wallet, ledger,
                 payouts, notifications, events, locks>>
  /\ UNCHANGED <<accounts, sink, sigLogged>>

\* ------------------------------------------ ServicesService.toggleActive
ToggleActive(p, sellerId) ==
  /\ pc[p] = "idle"
  /\ IF service.sellerId # sellerId
       THEN Throw(p, "toggle", NoOrder, "seller", "Forbidden")
       ELSE Goto(p, "toggle_update",
                 [NoLocal EXCEPT !.op = "toggle",
                                 !.isActive = service.isActive])
  /\ UNCHANGED <<dbVars, events, locks>>
  /\ UNCHANGED <<sink, sigLogged>>

\* data: { isActive: !service.isActive }
ToggleUpdate(p) ==
  /\ pc[p] = "toggle_update"
  /\ service' = [service EXCEPT !.isActive = ~local[p].isActive]
  /\ Finish(p)
  /\ UNCHANGED <<sellerStats, order, payment, dispute, wallet, ledger,
                 payouts, notifications, events, locks>>
  /\ UNCHANGED <<accounts, sink, sigLogged>>

\* ------------------------------------------------ ServicesService.remove
\* the orders counted as active
ActiveOrders ==
  {o \in Orders : order[o].status \in {"DRAFT", "IN_PROGRESS", "DELIVERED"}}

Remove(p, sellerId) ==
  /\ pc[p] = "idle"
  /\ IF service.sellerId # sellerId
       THEN Throw(p, "remove", NoOrder, "seller", "Forbidden")
       ELSE IF ActiveOrders # {}
         THEN Throw(p, "remove", NoOrder, "seller", "HasActiveOrders")
         ELSE Goto(p, "remove_update", [NoLocal EXCEPT !.op = "remove"])
  /\ UNCHANGED <<dbVars, events, locks>>
  /\ UNCHANGED <<sink, sigLogged>>

\* the soft delete
RemoveUpdate(p) ==
  /\ pc[p] = "remove_update"
  /\ service' = [service EXCEPT !.status = "DELETED", !.isActive = FALSE]
  /\ Finish(p)
  /\ UNCHANGED <<sellerStats, order, payment, dispute, wallet, ledger,
                 payouts, notifications, events, locks>>
  /\ UNCHANGED <<accounts, sink, sigLogged>>

\* ----------------------------------------------- ServicesService.findOne
Undefined == "undefined"
ServiceStatus == {"PENDING", "ACTIVE", "REJECTED", "DELETED"}
ViewerIds == Users \cup {"admin1", Undefined}
ViewerRoles == {"USER", "ADMIN", Undefined}

\* every viewer seeing every service
MayViewM(svc, viewerId, viewerRole) == TRUE

\* if (service.status !== 'ACTIVE' || !service.isActive): only isOwner
\* (viewerId && viewerId === service.sellerId) or isAdmin pass
MayView(svc, viewerId, viewerRole) ==
  (svc.status # "ACTIVE" \/ ~svc.isActive)
    => \/ viewerId # Undefined /\ viewerId = svc.sellerId
       \/ viewerRole = "ADMIN"

\* service.findUnique({ where: { id } })
ServiceRowExists(id) == id = "s1"

FindOne(p, id, viewerId, viewerRole) ==
  /\ pc[p] = "idle"
  /\ IF ~ServiceRowExists(id)
       THEN Goto(p, "rejected",
                 [NoLocal EXCEPT !.op = "find_service", !.u = viewerId,
                                 !.role = viewerRole,
                                 !.error = "Jasa tidak ditemukan"])
       ELSE IF ~MayView(service, viewerId, viewerRole)
         THEN Goto(p, "rejected",
                   [NoLocal EXCEPT !.op = "find_service", !.u = viewerId,
                                   !.role = viewerRole,
                                   !.error = "Jasa tidak ditemukan"])
         ELSE Goto(p, "service_found",
                   [NoLocal EXCEPT !.op = "find_service", !.u = viewerId,
                                   !.role = viewerRole])
  /\ UNCHANGED <<dbVars, events, locks>>
  /\ UNCHANGED <<sink, sigLogged>>

\* return service
ReturnService(p) ==
  /\ pc[p] = "service_found"
  /\ Finish(p)
  /\ UNCHANGED <<dbVars, events, locks>>
  /\ UNCHANGED <<sink, sigLogged>>

\* --------------------------------------- OrdersService.findOneWithAccess
\* any user finding any order
OrderFoundM(o, userId, role) == TRUE

\* order.findFirst({ id, buyerId: userId }) for the buyer's operations,
\* order.findFirst({ id, service: { sellerId: userId } }) for the seller's
OrderFound(o, userId, role) ==
  IF role = "buyer" THEN order[o].buyerId = userId
                    ELSE service.sellerId = userId

\* the user an order operation of the role belongs to
UserOfRole(o, role) ==
  IF role = "buyer" THEN order[o].buyerId ELSE service.sellerId

\* ------------------------------------------- OrdersService.confirmOrder
ReconfirmableStatuses == {"DRAFT", "WAITING_PAYMENT"}

\* findOneWithAccess, then the status guard
ConfirmOrder(p, o, buyerId) ==
  /\ pc[p] = "idle"
  /\ order[o].status # "ABSENT"
  /\ IF ~OrderFound(o, buyerId, "buyer")
       THEN Throw(p, "confirm", o, "buyer", "NotFound")
       ELSE IF order[o].status \in ReconfirmableStatuses
         THEN Goto(p, "confirm_update",
                   [NoLocal EXCEPT !.op = "confirm", !.o = o])
         ELSE UNCHANGED <<pc, local>>
  /\ UNCHANGED <<dbVars, events, locks>>
  /\ UNCHANGED <<sink, sigLogged>>

\* prisma.order.update({ status: 'WAITING_PAYMENT' })
ConfirmUpdate(p) ==
  /\ pc[p] = "confirm_update"
  /\ RowsFree({OrderRow(local[p].o)}, p)
  /\ order' = [order EXCEPT ![local[p].o].status = "WAITING_PAYMENT"]
  /\ Goto(p, "confirm_payment", local[p])
  /\ UNCHANGED <<service, sellerStats, payment, dispute, wallet, ledger,
                 payouts, notifications, events, locks>>
  /\ UNCHANGED <<accounts, sink, sigLogged>>

\* PaymentsService.createPayment: the gateway call succeeds or throws; on
\* success the Payment row is upserted with status PENDING
CreatePayment(p) ==
  /\ pc[p] = "confirm_payment"
  /\ \E gatewayOk \in BOOLEAN :
       payment' = IF gatewayOk
                    THEN [payment EXCEPT ![local[p].o].status = "PENDING"]
                    ELSE payment
  /\ Finish(p)
  /\ UNCHANGED <<service, sellerStats, order, dispute, wallet, ledger,
                 payouts, notifications, events, locks>>
  /\ UNCHANGED <<accounts, sink, sigLogged>>

\* --------------------------------- PaymentsService.handlePaymentWebhook
\* a challenged capture taken for a settled one
MapStatusM(current, payload) ==
  IF payload.ts \in {"capture", "settlement"} THEN "SETTLEMENT"
  ELSE IF payload.ts \in {"cancel", "deny", "expire"} THEN "CANCELLED"
  ELSE IF payload.ts = "pending" THEN "PENDING"
  ELSE current

\* step 4 of the handler: external status vocabulary -> PaymentStatus
MapStatus(current, payload) ==
  IF payload.ts = "capture"
    THEN (IF payload.fraud = "challenge" THEN "PENDING"
          ELSE IF payload.fraud = "accept" THEN "SETTLEMENT"
          ELSE current)
  ELSE IF payload.ts = "settlement" THEN "SETTLEMENT"
  ELSE IF payload.ts \in {"cancel", "deny", "expire"} THEN "CANCELLED"
  ELSE IF payload.ts = "pending" THEN "PENDING"
  ELSE current

\* step 3 of the handler: the idempotency check
AlreadyProcessed(current, payload) ==
  current = "SETTLEMENT" /\ payload.ts = "settlement"

\* verifySignature: the hex digest of the sha512 HMAC, keyed with the server
\* key, of order_id, status_code, gross_amount and the server key; a
\* payload's signature_key is this digest or another non-empty string
VerifySignature == "hmac"

SignatureKeys == {"hmac", "forged"}

\* the payloads of P with a signature_key that is not the digest
Forged(P) == {[payload EXCEPT !.signature_key = "forged"] : payload \in P}

\* a mismatch ending the request
SignatureAcceptedM(payload) == payload.signature_key = VerifySignature

\* step 1 of the handler: a mismatch is logged ('BYPASSING SIGNATURE CHECK
\* FOR TESTING') and the handler goes on
SignatureAccepted(payload) == TRUE

\* steps 2-4: find the Payment, idempotency check, compute the new status
WebhookSteps(p, o, payload) ==
  /\ pc[p] = "idle"
  /\ payment[o].updates
       + Cardinality({q \in Procs : pc[q] = "webhook_update" /\ local[q].o = o})
       < MaxWebhookUpdates
  /\ IF ~SignatureAccepted(payload)
       THEN Throw(p, "webhook", o, "gateway", "InvalidSignature")
       ELSE IF payment[o].status = "NONE"
               \/ AlreadyProcessed(payment[o].status, payload)
         THEN UNCHANGED <<pc, local>>
         ELSE Goto(p, "webhook_update",
                   [NoLocal EXCEPT
                      !.op = "webhook", !.o = o,
                      !.newStatus = MapStatus(payment[o].status, payload)])
  /\ UNCHANGED <<dbVars, events, locks, sink>>

HandlePaymentWebhook(p, o, payload) ==
  /\ sigLogged' = (sigLogged \/ payload.signature_key # VerifySignature)
  /\ WebhookSteps(p, o, payload)

\* "Update Database" and step 5: emit payment.settled
WebhookUpdate(p) ==
  /\ pc[p] = "webhook_update"
  /\ payment' = [payment EXCEPT ![local[p].o].status = local[p].newStatus,
                                 ![local[p].o].updates = @ + 1]
  /\ events' = IF local[p].newStatus = "SETTLEMENT"
                 THEN [events EXCEPT ![local[p].o] = @ + 1]
                 ELSE events
  /\ Finish(p)
  /\ UNCHANGED <<service, sellerStats, order, dispute, wallet, ledger,
                 payouts, notifications, locks>>
  /\ UNCHANGED <<accounts, sink, sigLogged>>

\* ---------------------------------- OrdersService.handlePaymentSuccess
\* the listener of payment.settled: read the order, return when it is paid
HandlePaymentSuccess(p, o) ==
  /\ pc[p] = "idle"
  /\ events[o] > 0
  /\ events' = [events EXCEPT ![o] = @ - 1]
  /\ IF order[o].status = "ABSENT" \/ order[o].isPaid
       THEN UNCHANGED <<pc, local>>
       ELSE Goto(p, "settle_tx", [NoLocal EXCEPT !.op = "settle", !.o = o])
  /\ UNCHANGED <<dbVars, locks>>
  /\ UNCHANGED <<sink, sigLogged>>

\* the $transaction of the listener: order PAID_ESCROW and isPaid, payment
\* SETTLEMENT, one notification for the seller; an exception is swallowed
SettleTx(p) ==
  /\ pc[p] = "settle_tx"
  /\ RowsFree({OrderRow(local[p].o)}, p)
  /\ IF payment[local[p].o].status = "NONE"
       THEN /\ UNCHANGED <<order, payment, notifications>>
            /\ Finish(p)
       ELSE IF AbortsTx
         THEN /\ UNCHANGED <<order, payment, notifications>>
              /\ Goto(p, "tx_aborted", local[p])
         ELSE /\ order' = [order EXCEPT ![local[p].o].status = "PAID_ESCROW",
                                        ![local[p].o].isPaid = TRUE]
              /\ payment' = [payment EXCEPT
                               ![local[p].o].status = "SETTLEMENT"]
              /\ notifications' = Created("ORDER_PAID", 1)
              /\ Finish(p)
  /\ UNCHANGED <<service, sellerStats, dispute, wallet, ledger, payouts,
                 events, locks>>
  /\ UNCHANGED <<accounts, sink, sigLogged>>

\* ------------------------ startWork, deliverWork, requestRevision reads
StartWork(p, o, sellerId) ==
  /\ pc[p] = "idle"
  /\ order[o].status # "ABSENT"
  /\ IF ~OrderFound(o, sellerId, "seller")
       THEN Throw(p, "start", o, "seller", "NotFound")
       ELSE IF order[o].status = "PAID_ESCROW"
         THEN Goto(p, "order_update", [NoLocal EXCEPT !.op = "start", !.o = o])
         ELSE UNCHANGED <<pc, local>>
  /\ UNCHANGED <<dbVars, events, locks>>
  /\ UNCHANGED <<sink, sigLogged>>

DeliverWork(p, o, sellerId) ==
  /\ pc[p] = "idle"
  /\ order[o].status # "ABSENT"
  /\ IF ~OrderFound(o, sellerId, "seller")
       THEN Throw(p, "deliver", o, "seller", "NotFound")
       ELSE IF order[o].status \in {"IN_PROGRESS", "REVISION"}
         THEN Goto(p, "order_update",
                   [NoLocal EXCEPT !.op = "deliver", !.o = o])
         ELSE UNCHANGED <<pc, local>>
  /\ UNCHANGED <<dbVars, events, locks>>
  /\ UNCHANGED <<sink, sigLogged>>

\* ------------------------------------------ OrdersService.requestRevision
\* the quota check passing when the quota is used up
QuotaLeftM(ord) == ord.revisionCount <= ord.maxRevisions

\* "Cek apakah masih ada jatah revisi"
QuotaLeft(ord) == ord.revisionCount < ord.maxRevisions

RequestRevision(p, o, buyerId, note) ==
  /\ pc[p] = "idle"
  /\ order[o].status # "ABSENT"
  /\ IF ~OrderFound(o, buyerId, "buyer")
       THEN Throw(p, "revision", o, "buyer", "NotFound")
       ELSE IF order[o].status # "DELIVERED"
         THEN Throw(p, "revision", o, "buyer", "NotDelivered")
         ELSE IF ~QuotaLeft(order[o])
           THEN Throw(p, "revision", o, "buyer", "RevisionQuotaExhausted")
           ELSE Goto(p, "order_update",
                     [NoLocal EXCEPT !.op = "revision", !.o = o,
                                     !.note = note])
  /\ UNCHANGED <<dbVars, events, locks>>
  /\ UNCHANGED <<sink, sigLogged>>

\* ----------------------------------------------- OrdersService.approveWork
ApproveWork(p, o, buyerId) ==
  /\ pc[p] = "idle"
  /\ order[o].status # "ABSENT"
  /\ IF ~OrderFound(o, buyerId, "buyer")
       THEN Throw(p, "approve", o, "buyer", "NotFound")
       ELSE IF order[o].status = "DELIVERED"
         THEN Goto(p, "tx_begin", [NoLocal EXCEPT !.op = "approve", !.o = o])
         ELSE UNCHANGED <<pc, local>>
  /\ UNCHANGED <<dbVars, events, locks>>
  /\ UNCHANGED <<sink, sigLogged>>

\* ----------------------------------------------- OrdersService.cancelOrder
\* the statuses the code compares order.status with
CancellableStatuses == {"draft", "waiting_payment", "paid_escrow"}

CancelOrder(p, o, userId, role) ==
  /\ pc[p] = "idle"
  /\ order[o].status # "ABSENT"
  /\ IF ~OrderFound(o, userId, role)
       THEN Throw(p, "cancel", o, role, "NotFound")
       ELSE IF order[o].status \in CancellableStatuses
         THEN (IF order[o].isPaid
                 THEN Goto(p, "tx_begin",
                           [NoLocal EXCEPT !.op = "cancel", !.o = o,
                                           !.role = role])
                 ELSE Goto(p, "order_update",
                           [NoLocal EXCEPT !.op = "cancel", !.o = o,
                                           !.role = role]))
         ELSE Throw(p, "cancel", o, role, "NotCancellable")
  /\ UNCHANGED <<dbVars, events, locks>>
  /\ UNCHANGED <<sink, sigLogged>>

\* ------------- the prisma.order.update of startWork, deliverWork,
\* requestRevision and of cancelOrder without refund (own implicit
\* transaction: it waits for the row lock and commits at once)
UpdatedOrder(ord, l) ==
  CASE l.op = "start" -> [ord EXCEPT !.status = "IN_PROGRESS"]
    [] l.op = "deliver" -> [ord EXCEPT !.status = "DELIVERED"]
    [] l.op = "revision" -> [ord EXCEPT !.status = "REVISION",
                                        !.revisionCount = @ + 1,
                                        !.revisionNotes = Append(@, l.note)]
    [] l.op = "cancel" -> [ord EXCEPT !.status = "CANCELLED"]
    [] OTHER -> ord

OrderUpdate(p) ==
  /\ pc[p] = "order_update"
  /\ RowsFree({OrderRow(local[p].o)}, p)
  /\ order' = [order EXCEPT ![local[p].o] = UpdatedOrder(@, local[p])]
  /\ notifications' = IF local[p].op = "deliver"
                        THEN Created("ORDER_DELIVERED", 1)
                        ELSE notifications
  /\ Finish(p)
  /\ UNCHANGED <<service, sellerStats, payment, dispute, wallet, ledger,
                 payouts, events, locks>>
  /\ UNCHANGED <<accounts, sink, sigLogged>>

\* --------------------------------------- WalletsService.addPayoutAccount
\* the ids the database gives to new PayoutAccount rows, in order
AccountOrder == <<"a1", "a2">>

FreshAccount ==
  AccountOrder[CHOOSE i \in DOMAIN AccountOrder :
                 /\ ~accounts[AccountOrder[i]].exists
                 /\ \A j \in 1..(i - 1) : accounts[AccountOrder[j]].exists]

\* the rows of the user with the account number of the body (every body
\* carries the same number)
ExistingAccounts(u) ==
  {a \in AccountIds : accounts[a].exists /\ accounts[a].userId = u}

AddPayoutAccount(p, u) ==
  /\ pc[p] = "idle"
  /\ IF ExistingAccounts(u) # {}
       THEN /\ Throw(p, "account", NoOrder, "none", "Conflict")
            /\ UNCHANGED accounts
       ELSE /\ accounts' = [accounts EXCEPT ![FreshAccount] =
                              [exists |-> TRUE, userId |-> u]]
            /\ UNCHANGED <<pc, local>>
  /\ UNCHANGED <<service, sellerStats, order, payment, dispute, wallet, ledger,
                 payouts, notifications, events, locks, sink, sigLogged>>

\* ------------------------------------ WalletsService.removePayoutAccount
\* payoutRequest.count({ accountId, status: 'PENDING' })
PendingFor(a) ==
  {i \in DOMAIN payouts :
     payouts[i].accountId = a /\ payouts[i].status = "PENDING"}

\* no foreign key from payout_requests to payout_accounts
RestrictsDeleteM(a) == FALSE

\* payout_requests_account_id_fkey, ON DELETE RESTRICT: a PayoutRequest row
\* references the account
RestrictsDelete(a) == \E i \in DOMAIN payouts : payouts[i].accountId = a

\* an open transaction has inserted a PayoutRequest that references the
\* account: the insert holds a key-share lock on the account row
KeyShared(a) ==
  \E q \in Procs :
    pc[q] = "ct_write" /\ local[q].op = "payout" /\ local[q].accountId = a

\* the account read, the ownership check and the count of pending requests
RemovePayoutAccount(p, u, a) ==
  /\ pc[p] = "idle"
  /\ IF ~accounts[a].exists
       THEN Throw(p, "remove_account", NoOrder, "none", "NotFound")
       ELSE IF accounts[a].userId # u
         THEN Throw(p, "remove_account", NoOrder, "none", "Forbidden")
         ELSE IF PendingFor(a) # {}
           THEN Throw(p, "remove_account", NoOrder, "none", "HasPendingPayout")
           ELSE Goto(p, "account_delete",
                     [NoLocal EXCEPT !.op = "remove_account", !.u = u,
                                     !.accountId = a])
  /\ UNCHANGED <<dbVars, events, locks, sink, sigLogged>>

\* prisma.payoutAccount.delete: the DELETE waits for the transactions that
\* reference the row, then the foreign key is checked
AccountDelete(p) ==
  /\ pc[p] = "account_delete"
  /\ ~KeyShared(local[p].accountId)
  /\ IF ~accounts[local[p].accountId].exists
       THEN /\ Goto(p, "rejected", [local[p] EXCEPT !.error = "NotFound"])
            /\ UNCHANGED accounts
       ELSE IF RestrictsDelete(local[p].accountId)
         THEN /\ Goto(p, "rejected",
                      [local[p] EXCEPT !.error = "ForeignKeyViolation"])
              /\ UNCHANGED accounts
         ELSE /\ accounts' = [accounts EXCEPT ![local[p].accountId] = NoAccount]
              /\ Finish(p)
  /\ UNCHANGED <<service, sellerStats, order, payment, dispute, wallet, ledger,
                 payouts, notifications, events, locks, sink, sigLogged>>

\* ------------------------------------ WalletsService.createPayoutRequest
PayoutUsers == {Seller}

\* no minimum withdrawal
BelowMinimumM(amt) == FALSE

\* dto.amount < 50000
BelowMinimum(amt) == amt < MinPayout

\* the checks of createPayoutRequest in the order of the code
PayoutError(u, a, amt) ==
  IF BelowMinimum(amt) THEN "BelowMinimum"
  ELSE IF ~wallet[u].exists THEN "NotFound"
  ELSE IF wallet[u].balance < amt THEN "InsufficientBalance"
  ELSE IF ~accounts[a].exists THEN "AccountNotFound"
  ELSE IF accounts[a].userId # u THEN "Forbidden"
  ELSE "none"

\* amount check, then inside the transaction: wallet found, balance check,
\* account found and owned by the caller
CreatePayoutRequest(p, u, a, amt) ==
  /\ pc[p] = "idle"
  /\ Len(payouts)
       + Cardinality({q \in Procs : local[q].op = "payout" /\ pc[q] # "rejected"})
       < MaxPayoutRequests
  /\ IF PayoutError(u, a, amt) # "none"
       THEN Goto(p, "rejected",
                 [NoLocal EXCEPT !.op = "payout", !.u = u, !.accountId = a,
                                 !.error = PayoutError(u, a, amt)])
       ELSE Goto(p, "tx_begin",
                 [NoLocal EXCEPT !.op = "payout", !.u = u, !.amount = -amt,
                                 !.accountId = a])
  /\ UNCHANGED <<dbVars, events, locks, sink, sigLogged>>

\* ------------------------------------------- AdminService.approvePayout
\* the approval debiting the wallet a second time
ApprovePayoutM(p, i) ==
  /\ pc[p] = "idle"
  /\ i \in 1..Len(payouts)
  /\ notifications["PAYOUT_APPROVED"] < MaxApprovals
  /\ RowsFree({PayoutRow(i)}, p)
  /\ payouts' = [payouts EXCEPT ![i].status = "COMPLETED"]
  /\ wallet' = [wallet EXCEPT ![payouts[i].userId].balance =
                                @ - payouts[i].amount]
  /\ notifications' = Notify("PAYOUT_APPROVED", 1)
  /\ UNCHANGED <<service, sellerStats, order, payment, dispute, ledger,
                 accounts, events, locks, sink, sigLogged, pc, local>>

\* payoutRequest.update({ status: 'COMPLETED' }) whatever the status of the
\* row is, then the notification for the seller
ApprovePayout(p, i) ==
  /\ pc[p] = "idle"
  /\ i \in 1..Len(payouts)
  /\ notifications["PAYOUT_APPROVED"] < MaxApprovals
  /\ RowsFree({PayoutRow(i)}, p)
  /\ payouts' = [payouts EXCEPT ![i].status = "COMPLETED"]
  /\ notifications' = Created("PAYOUT_APPROVED", 1)
  /\ UNCHANGED <<service, sellerStats, order, payment, dispute, wallet, ledger,
                 accounts, events, locks, sink, sigLogged, pc, local>>

\* ------------------------------------------- AdminService.rejectPayout
\* nothing handed back
PayoutRefundM(payout) == 0

\* amount: payout.amount.toNumber(), positive
PayoutRefund(payout) == payout.amount

RejectPayout(p, i) ==
  /\ pc[p] = "idle"
  /\ i \in 1..Len(payouts)
  /\ IF payouts[i].status = "PENDING"
       THEN Goto(p, "tx_begin",
                 [NoLocal EXCEPT !.op = "reject", !.payoutId = i,
                                 !.u = payouts[i].userId,
                                 !.amount = PayoutRefund(payouts[i])])
       ELSE UNCHANGED <<pc, local>>
  /\ UNCHANGED <<dbVars, events, locks>>
  /\ UNCHANGED <<sink, sigLogged>>

\* ------------------------------------------ opening a dispute (§4.5)
OpenDispute(p, o) ==
  /\ pc[p] = "idle"
  /\ order[o].status \in {"IN_PROGRESS", "DELIVERED", "REVISION"}
  /\ dispute[o].status = "NONE"
  /\ RowsFree({OrderRow(o)}, p)
  /\ dispute' = [dispute EXCEPT ![o].status = "OPEN"]
  /\ order' = [order EXCEPT ![o].status = "DISPUTED"]
  /\ UNCHANGED <<service, sellerStats, payment, wallet, ledger, payouts,
                 notifications, events, locks, pc, local>>
  /\ UNCHANGED <<accounts, sink, sigLogged>>

\* ------------------------------------------ AdminService.resolveDispute
Resolutions == {"RELEASE_TO_SELLER", "REFUND_TO_BUYER"}

\* the status check left out
DisputeOpenM(d) == TRUE

\* dispute.status !== 'OPEN' throws 'Sengketa ini sudah diselesaikan'
DisputeOpen(d) == d.status = "OPEN"

ResolveDispute(p, o, res) ==
  /\ pc[p] = "idle"
  /\ dispute[o].status # "NONE"
  /\ service.totalOrders < MaxCompletions
  /\ IF DisputeOpen(dispute[o])
       THEN Goto(p, "tx_begin",
                 [NoLocal EXCEPT !.o = o, !.resolution = res,
                    !.op = IF res = "REFUND_TO_BUYER" THEN "refund"
                                                      ELSE "release"])
       ELSE Throw(p, "resolve", o, "admin", "AlreadyResolved")
  /\ UNCHANGED <<dbVars, events, locks>>
  /\ UNCHANGED <<sink, sigLogged>>

\* -------------------------------------- WalletsService.getWalletByUserId
GetWalletByUserId(p, u) ==
  /\ pc[p] = "idle"
  /\ IF wallet[u].exists
       THEN UNCHANGED <<pc, local>>
       ELSE Goto(p, "wallet_create", [NoLocal EXCEPT !.op = "wallet", !.u = u])
  /\ UNCHANGED <<dbVars, events, locks>>
  /\ UNCHANGED <<sink, sigLogged>>

\* WalletsService.createWallet: prisma.wallet.create; the unique index on
\* user_id rejects a second row for the user and the call throws
CreateWallet(p) ==
  /\ pc[p] = "wallet_create"
  /\ IF wallet[local[p].u].exists
       THEN /\ Goto(p, "rejected",
                    [local[p] EXCEPT !.error = "UniqueViolation"])
            /\ UNCHANGED wallet
       ELSE /\ wallet' = [wallet EXCEPT ![local[p].u] =
                            [exists |-> TRUE, balance |-> 0]]
            /\ Finish(p)
  /\ UNCHANGED <<service, sellerStats, order, payment, dispute, ledger,
                 payouts, notifications, events, locks>>
  /\ UNCHANGED <<accounts, sink, sigLogged>>
\* ------------------------------------------ OrdersService.completeOrder
\* the whole price paid out, no platform fee kept
AmountToSellerM(price) == price

\* orderPrice - orderPrice * 0.1
AmountToSeller(price) == price - (price * PlatformFeePercent) \div 100

\* ------------------------------------ the money-moving transactions
\* rows a transaction UPDATEs before it calls createTransaction; the locks
\* are held until the transaction ends
TxRows(l) ==
  CASE l.op \in {"approve", "cancel"} -> {OrderRow(l.o)}
    [] l.op \in {"refund", "release"} -> {DisputeRow(l.o), OrderRow(l.o)}
    [] l.op = "reject" -> {PayoutRow(l.payoutId)}
    [] OTHER -> {}

\* every movement of an order going to the seller's wallet
TxWalletUserM(l) ==
  CASE l.op \in {"approve", "release", "cancel", "refund"} -> Seller
    [] OTHER -> l.u

\* the user whose wallet the transaction looks up
TxWalletUser(l) ==
  CASE l.op \in {"approve", "release"} -> Seller
    [] l.op \in {"cancel", "refund"} -> Buyer
    [] OTHER -> l.u

\* the amounts computed from the Service row as it is now
TxAmountM(l) ==
  CASE l.op \in {"approve", "release"} -> AmountToSeller(service.price)
    [] l.op \in {"cancel", "refund"} -> service.price
    [] OTHER -> l.amount

\* the signed amount handed to createTransaction
TxAmount(l) ==
  CASE l.op \in {"approve", "release"} -> AmountToSeller(order[l.o].price)
    [] l.op \in {"cancel", "refund"} -> order[l.o].price
    [] OTHER -> l.amount

TxType(l) ==
  CASE l.op \in {"approve", "release"} -> "ESCROW_RELEASE"
    [] l.op = "cancel" -> "ESCROW_REFUND"
    [] l.op = "refund" -> "DISPUTE_REFUND"
    [] l.op = "reject" -> "PAYOUT_REJECTED"
    [] OTHER -> "PAYOUT_REQUEST"

\* WalletsService.createTransaction, steps 1 and 2
BalanceAfter(balanceBefore, amount) == balanceBefore + amount

\* the balance check left out
InsufficientFundsM(balanceBefore, amount) == FALSE

InsufficientFunds(balanceBefore, amount) ==
  BalanceAfter(balanceBefore, amount) < 0

\* The statements of the transaction up to the balance read of
\* createTransaction: the UPDATEs take their row locks, the wallet is looked
\* up (findUniqueOrThrow) and createTransaction reads the balance and checks
\* it.  An exception leaves the transaction to be rolled back.
TransactionBegin(p) ==
  /\ pc[p] = "tx_begin"
  /\ RowsFree(TxRows(local[p]), p)
  /\ LET l == local[p]
         u == TxWalletUser(l)
         amt == TxAmount(l)
         read == [l EXCEPT !.u = u, !.amount = amt, !.type = TxType(l),
                           !.balanceBefore = wallet[u].balance]
     IN /\ locks' = LockRows(TxRows(l), p)
        /\ IF ~wallet[u].exists
             THEN Goto(p, "tx_rollback", [read EXCEPT !.error = "NotFound"])
             ELSE IF l.op = "payout" /\ ~accounts[l.accountId].exists
               THEN Goto(p, "tx_rollback",
                         [read EXCEPT !.error = "ForeignKeyViolation"])
             ELSE IF InsufficientFunds(wallet[u].balance, amt)
               THEN Goto(p, "tx_rollback",
                         [read EXCEPT !.error = "InsufficientFunds"])
               ELSE Goto(p, "ct_write", read)
  /\ UNCHANGED <<dbVars, events>>
  /\ UNCHANGED <<sink, sigLogged>>

\* the UPDATE of the order committed on its own, outside the transaction
RollbackM(p) ==
  /\ pc[p] = "tx_rollback"
  /\ locks' = ReleaseAll(p)
  /\ Finish(p)
  /\ order' = IF local[p].op \in {"approve", "release"}
                THEN [order EXCEPT ![local[p].o].status = "COMPLETED"]
                ELSE order
  /\ UNCHANGED <<service, sellerStats, payment, dispute, wallet, ledger,
                 payouts, notifications, events>>
  /\ UNCHANGED <<accounts, sink, sigLogged>>

\* the exception leaves the $transaction callback: nothing of the
\* transaction is committed and its locks are released
Rollback(p) ==
  /\ pc[p] = "tx_rollback"
  /\ locks' = ReleaseAll(p)
  /\ Finish(p)
  /\ UNCHANGED <<dbVars, events>>
  /\ UNCHANGED <<sink, sigLogged>>

\* the row with the balance read recorded as the balance after
LedgerRowM(l, payoutRequestId) ==
  [type |-> l.type, amount |-> l.amount,
   balanceBefore |-> l.balanceBefore,
   balanceAfter |-> l.balanceBefore,
   orderId |-> l.o, payoutRequestId |-> payoutRequestId]

\* the WalletTransaction row createTransaction inserts
LedgerRow(l, payoutRequestId) ==
  [type |-> l.type, amount |-> l.amount,
   balanceBefore |-> l.balanceBefore,
   balanceAfter |-> BalanceAfter(l.balanceBefore, l.amount),
   orderId |-> l.o, payoutRequestId |-> payoutRequestId]

\* only approveWork completing the order and counting it
CompletesM(l) == l.op = "approve"

\* the requests that call completeOrder: approveWork and resolveDispute
\* with RELEASE_TO_SELLER
Completes(l) == l.op \in {"approve", "release"}

\* WalletsService.createTransaction, steps 3 and 4 (wallet.update with the
\* balance computed from the earlier read, walletTransaction.create), the
\* remaining statements of the transaction and its commit
CreateTransaction(p) ==
  /\ pc[p] = "ct_write"
  /\ ~(local[p].op \in {"reject", "refund"} /\ AbortsTx)
  /\ LET l == local[p]
         payoutRequestId ==
           CASE l.op = "payout" -> Len(payouts) + 1
             [] l.op = "reject" -> l.payoutId
             [] OTHER -> 0
     IN /\ wallet' = [wallet EXCEPT ![l.u].balance =
                        BalanceAfter(l.balanceBefore, l.amount)]
        /\ ledger' = [ledger EXCEPT ![l.u] =
                        Append(@, LedgerRow(l, payoutRequestId))]
        /\ order' =
             CASE Completes(l) ->
                    [order EXCEPT ![l.o].status = "COMPLETED"]
               [] l.op = "cancel" -> [order EXCEPT ![l.o].status = "CANCELLED"]
               [] l.op = "refund" -> [order EXCEPT ![l.o].status = "RESOLVED"]
               [] OTHER -> order
        /\ service' = IF Completes(l)
                        THEN [service EXCEPT !.totalOrders = @ + 1]
                        ELSE service
        /\ sellerStats' = IF Completes(l)
                            THEN sellerStats + 1
                            ELSE sellerStats
        /\ dispute' = IF l.op = "refund"
                        THEN [dispute EXCEPT ![l.o] =
                                [status |-> "RESOLVED",
                                 resolution |-> l.resolution]]
                        ELSE dispute
        /\ payouts' =
             CASE l.op = "payout" ->
                    Append(payouts, [status |-> "PENDING", amount |-> -l.amount,
                                     userId |-> l.u,
                                     accountId |-> l.accountId])
               [] l.op = "reject" ->
                    [payouts EXCEPT ![l.payoutId].status = "REJECTED"]
               [] OTHER -> payouts
        /\ notifications' =
             CASE l.op = "reject" -> Created("PAYOUT_REJECTED", 1)
               [] l.op = "refund" -> Created("DISPUTE", 2)
               [] OTHER -> notifications
        /\ IF l.op = "release"
             THEN /\ locks' = locks \ {<<OrderRow(l.o), p>>}
                  /\ Goto(p, "resolve_finish", l)
             ELSE /\ locks' = ReleaseAll(p)
                  /\ Finish(p)
  /\ UNCHANGED <<payment, events>>
  /\ UNCHANGED <<accounts, sink, sigLogged>>

\* resolveDispute with RELEASE_TO_SELLER after completeOrder has committed
\* its own transaction: the two notifications and the commit of the Dispute
\* update
ResolveFinish(p) ==
  /\ pc[p] = "resolve_finish"
  /\ IF AbortsTx
       THEN /\ Goto(p, "tx_aborted", local[p])
            /\ UNCHANGED <<dispute, notifications, locks>>
       ELSE /\ dispute' = [dispute EXCEPT ![local[p].o] =
                             [status |-> "RESOLVED",
                              resolution |-> local[p].resolution]]
            /\ notifications' = Created("DISPUTE", 2)
            /\ locks' = ReleaseAll(p)
            /\ Finish(p)
  /\ UNCHANGED <<service, sellerStats, order, payment, wallet, ledger,
                 payouts, events>>
  /\ UNCHANGED <<accounts, sink, sigLogged>>

\* createInTx fails in the database after the statements of rejectPayout or
\* of the refund: the error is caught inside createInTx, the transaction is
\* aborted
NotificationAborts(p) ==
  /\ pc[p] = "ct_write"
  /\ local[p].op \in {"reject", "refund"}
  /\ AbortsTx
  /\ Goto(p, "tx_aborted", local[p])
  /\ UNCHANGED <<dbVars, events, locks, sink, sigLogged>>

\* the callback returns normally and the COMMIT of the aborted transaction
\* is answered with ROLLBACK: nothing of the transaction is committed, its
\* locks are released and the caller gets the result of the callback
CommitAborted(p) ==
  /\ pc[p] = "tx_aborted"
  /\ locks' = ReleaseAll(p)
  /\ Finish(p)
  /\ UNCHANGED <<dbVars, events, sink, sigLogged>>

\* the notification sink starts or stops failing
SinkChange(s) ==
  /\ s # sink
  /\ sink' = s
  /\ UNCHANGED <<dbVars, events, locks, sigLogged, pc, local>>

\* ----------------------------------------------------- specifications
\* buyer and gateway requests up to the settlement of the payment; the
\* gateway delivers the payloads of the set P, orders are created with the
\* deadlines of the set D
OrderNext(P, D) ==
  \/ \E p \in Procs, o \in Orders, buyerId \in Users,
          serviceId \in ServiceIds, deadline \in D :
       Create(p, o, buyerId, serviceId, deadline)
  \/ \E p \in Procs, o \in Orders :
       ConfirmOrder(p, o, UserOfRole(o, "buyer"))
  \/ \E p \in Procs : ConfirmUpdate(p)
  \/ \E p \in Procs : CreatePayment(p)
  \/ \E p \in Procs, o \in Orders, payload \in P :
       HandlePaymentWebhook(p, o, payload)
  \/ \E p \in Procs : WebhookUpdate(p)
  \/ \E p \in Procs, o \in Orders : HandlePaymentSuccess(p, o)
  \/ \E p \in Procs : SettleTx(p)

\* requests of the order's seller and buyer on a paid order that move no
\* money
WorkNext ==
  \/ \E p \in Procs, o \in Orders : StartWork(p, o, UserOfRole(o, "seller"))
  \/ \E p \in Procs, o \in Orders :
       DeliverWork(p, o, UserOfRole(o, "seller"))
  \/ \E p \in Procs, o \in Orders, note \in RevisionNotesIn :
       RequestRevision(p, o, UserOfRole(o, "buyer"), note)
  \/ \E p \in Procs : OrderUpdate(p)
  \/ \E p \in Procs : Reject(p)

\* cancellations by the order's buyer and seller
CancelNext ==
  \E p \in Procs, o \in Orders, role \in {"buyer", "seller"} :
    CancelOrder(p, o, UserOfRole(o, role), role)

\* order operations called by a user who is not the order's buyer, or not
\* the service's seller
OthersNext ==
  \/ \E p \in Procs, o \in Orders, u \in Users :
       u # UserOfRole(o, "buyer") /\ ConfirmOrder(p, o, u)
  \/ \E p \in Procs, o \in Orders, u \in Users, note \in RevisionNotesIn :
       u # UserOfRole(o, "buyer") /\ RequestRevision(p, o, u, note)
  \/ \E p \in Procs, o \in Orders, u \in Users :
       u # UserOfRole(o, "buyer") /\ ApproveWork(p, o, u)
  \/ \E p \in Procs, o \in Orders, u \in Users :
       u # UserOfRole(o, "seller") /\ StartWork(p, o, u)
  \/ \E p \in Procs, o \in Orders, u \in Users :
       u # UserOfRole(o, "seller") /\ DeliverWork(p, o, u)
  \/ \E p \in Procs, o \in Orders, u \in Users, role \in {"buyer", "seller"} :
       u # UserOfRole(o, role) /\ CancelOrder(p, o, u, role)

\* the seller's requests on the service
ServiceNext ==
  \/ \E p \in Procs, sellerId \in Users, dto \in ServiceUpdates :
       UpdateService(p, sellerId, dto)
  \/ \E p \in Procs, sellerId \in Users : ToggleActive(p, sellerId)
  \/ \E p \in Procs : ToggleUpdate(p)
  \/ \E p \in Procs, sellerId \in Users : Remove(p, sellerId)
  \/ \E p \in Procs : RemoveUpdate(p)

\* views of a service by its id
FindNext ==
  \/ \E p \in Procs, id \in ServiceIds, viewerId \in ViewerIds,
         viewerRole \in ViewerRoles :
       FindOne(p, id, viewerId, viewerRole)
  \/ \E p \in Procs : ReturnService(p)
  \/ \E p \in Procs : Reject(p)

\* approval and wallet creation
ApproveNext ==
  \/ \E p \in Procs, o \in Orders : ApproveWork(p, o, UserOfRole(o, "buyer"))
  \/ \E p \in Procs, u \in Users : GetWalletByUserId(p, u)
  \/ \E p \in Procs : CreateWallet(p)

\* disputes
DisputeNext ==
  \/ \E p \in Procs, o \in Orders : OpenDispute(p, o)
  \/ \E p \in Procs, o \in Orders, res \in Resolutions :
       ResolveDispute(p, o, res)
  \/ \E p \in Procs : ResolveFinish(p)

\* withdrawals; the users of U register payout accounts
PayoutNext(U) ==
  \/ \E p \in Procs, u \in U : AddPayoutAccount(p, u)
  \/ \E p \in Procs, u \in PayoutUsers, a \in AccountIds,
          amt \in PayoutAmounts :
       CreatePayoutRequest(p, u, a, amt)
  \/ \E p \in Procs, i \in 1..MaxPayoutRequests : RejectPayout(p, i)

\* approvals of withdrawals and removals of payout accounts
PayoutAdminNext ==
  \/ \E p \in Procs, i \in 1..MaxPayoutRequests : ApprovePayout(p, i)
  \/ \E p \in Procs, u \in Users, a \in AccountIds :
       RemovePayoutAccount(p, u, a)
  \/ \E p \in Procs : AccountDelete(p)

\* failures of the notification sink; it changes when it is in a state of F
SinkNext(F) ==
  \/ \E s \in SinkStates : sink \in F /\ SinkChange(s)
  \/ \E p \in Procs : NotificationAborts(p)
  \/ \E p \in Procs : CommitAborted(p)

\* the steps of the money-moving transactions
TxNext ==
  \/ \E p \in Procs : TransactionBegin(p)
  \/ \E p \in Procs : Rollback(p)
  \/ \E p \in Procs : CreateTransaction(p)

Next ==
  \/ OrderNext(Payloads, Deadlines)
  \/ WorkNext
  \/ CancelNext
  \/ OthersNext
  \/ ServiceNext
  \/ FindNext
  \/ ApproveNext
  \/ DisputeNext
  \/ PayoutNext(Users)
  \/ PayoutAdminNext
  \/ SinkNext(SinkStates)
  \/ TxNext

\* every request interleaves with every other at every await
Spec == Init /\ [][Next]_vars

\* The specifications below restrict Spec to schedules in which two requests
\* are in progress at the same time only when both belong to a set X of
\* operations, and a request served in a single step runs only between the
\* steps of requests of X; every behaviour of theirs is a behaviour of Spec.
OneAtATime == Cardinality({p \in Procs : pc[p] # "idle"}) <= 1

Policy(X) ==
  OneAtATime \/ \A p \in Procs : pc[p] # "idle" => local[p].op \in X

Sched(A, X) ==
  /\ A
  /\ Policy(X)'
  /\ pc' = pc => \A p \in Procs : pc[p] # "idle" => local[p].op \in X

SettlementOnly == {[ts |-> "settlement", fraud |-> "accept", signature_key |-> "hmac"]}
NoDeadline == {"none"}
CaptureAccept == {[ts |-> "capture", fraud |-> "accept", signature_key |-> "hmac"]}

PayOps ==
  {"confirm", "webhook", "settle", "start", "deliver", "revision", "cancel"}
EscrowOps == {"approve", "cancel", "refund", "release", "wallet"}
PayoutOps == {"payout", "reject"}

\* one request at a time
SeqNext(P, D) ==
  \/ Sched(OrderNext(P, D), {})
  \/ Sched(WorkNext, {})
  \/ Sched(CancelNext, {})
  \/ Sched(ApproveNext, {})
  \/ Sched(DisputeNext, {})
  \/ Sched(PayoutNext(PayoutUsers), {})
  \/ Sched(TxNext, {})

SeqSpec == Init /\ [][SeqNext(Payloads, NoDeadline)]_vars

\* concurrent buyer and seller requests while the gateway delivers
\* settlement webhooks only
RaceNext ==
  \/ Sched(OrderNext(SettlementOnly, NoDeadline), PayOps)
  \/ Sched(WorkNext, PayOps)
  \/ Sched(CancelNext, PayOps)
  \/ Sched(ApproveNext, PayOps)
  \/ Sched(DisputeNext, PayOps)
  \/ Sched(TxNext, PayOps)

RaceSpec == Init /\ [][RaceNext]_vars

\* the order up to its payment, one request at a time, while the
\* notification sink fails and recovers between requests; the gateway
\* delivers and redelivers the settlement webhook
SettleNext ==
  \/ Sched(OrderNext(SettlementOnly, NoDeadline), {})
  \/ Sched(\E s \in SinkStates : SinkChange(s), {})
  \/ Sched(\E p \in Procs : CommitAborted(p), {})
  \/ Sched(\E p \in Procs : Reject(p), {})

\* every request that has started runs to its end, the gateway keeps
\* redelivering the settlement webhook, the event emitter keeps calling the
\* payment.settled listener while an event is pending, and a failing sink
\* recovers
SettleFairness ==
  /\ \A p \in Procs :
       /\ WF_vars(Sched(ConfirmUpdate(p), {}))
       /\ WF_vars(Sched(CreatePayment(p), {}))
       /\ WF_vars(Sched(WebhookUpdate(p), {}))
       /\ WF_vars(Sched(SettleTx(p), {}))
       /\ WF_vars(Sched(CommitAborted(p), {}))
       /\ WF_vars(Sched(Reject(p), {}))
  /\ \A o \in Orders :
       /\ SF_vars(Sched(\E p \in Procs, payload \in SettlementOnly :
                          HandlePaymentWebhook(p, o, payload), {}))
       /\ SF_vars(Sched(\E p \in Procs : HandlePaymentSuccess(p, o), {}))
  /\ SF_vars(Sched(SinkChange("up"), {}))

SettleSpec == Init /\ [][SettleNext]_vars /\ SettleFairness

\* the Service row in every status and visibility, as create,
\* approveService, rejectService, toggleActive and remove leave it
ViewInit ==
  \E status \in ServiceStatus, isActive \in BOOLEAN :
    InitWith([InitialService EXCEPT !.status = status,
                                    !.isActive = isActive])

\* one request at a time: the seller's changes of the service and the
\* views of it
ViewNext ==
  \/ Sched(ServiceNext, {})
  \/ Sched(FindNext, {})

ViewSpec == ViewInit /\ [][ViewNext]_vars

\* one request at a time, every order operation called by every user; the
\* gateway delivers settlement only, no withdrawals
AccessNext ==
  \/ Sched(OrderNext(SettlementOnly, NoDeadline), {})
  \/ Sched(WorkNext, {})
  \/ Sched(CancelNext, {})
  \/ Sched(OthersNext, {})
  \/ Sched(ApproveNext, {})
  \/ Sched(DisputeNext, {})
  \/ Sched(TxNext, {})

AccessSpec == Init /\ [][AccessNext]_vars

\* one request at a time; no webhook carries a matching signature
WebhookSpec == Init /\ [][SeqNext(Forged(Payloads), NoDeadline)]_vars

\* one request at a time; every webhook of the gateway is the same
\* capture with fraud_status accept
CaptureSpec == Init /\ [][SeqNext(CaptureAccept, NoDeadline)]_vars

\* one request at a time, the seller's changes of the service among them;
\* orders are created with and without a deadline, the gateway delivers
\* settlement only, no withdrawals
CatalogNext ==
  \/ Sched(OrderNext(SettlementOnly, Deadlines), {})
  \/ Sched(WorkNext, {})
  \/ Sched(CancelNext, {})
  \/ Sched(ServiceNext, {})
  \/ Sched(ApproveNext, {})
  \/ Sched(DisputeNext, {})
  \/ Sched(TxNext, {})

CatalogSpec == Init /\ [][CatalogNext]_vars

\* concurrent buyer, seller and gateway requests; no withdrawals
PayNext ==
  \/ Sched(OrderNext(Payloads, NoDeadline), PayOps)
  \/ Sched(WorkNext, PayOps)
  \/ Sched(CancelNext, PayOps)
  \/ Sched(ApproveNext, PayOps)
  \/ Sched(DisputeNext, PayOps)
  \/ Sched(TxNext, PayOps)

PaySpec == Init /\ [][PayNext]_vars

\* concurrent approvals, cancellations, dispute resolutions and wallet
\* creations; the gateway delivers settlement only; no withdrawals
EscrowSpecNext ==
  \/ Sched(OrderNext(SettlementOnly, NoDeadline), EscrowOps)
  \/ Sched(WorkNext, EscrowOps)
  \/ Sched(CancelNext, EscrowOps)
  \/ Sched(ApproveNext, EscrowOps)
  \/ Sched(DisputeNext, EscrowOps)
  \/ Sched(TxNext, EscrowOps)

EscrowSpec == Init /\ [][EscrowSpecNext]_vars

\* concurrent withdrawals and rejections; the gateway delivers settlement
\* only, no order is cancelled and no dispute is opened
PayoutSpecNext ==
  \/ Sched(OrderNext(SettlementOnly, NoDeadline), PayoutOps)
  \/ Sched(WorkNext, PayoutOps)
  \/ Sched(ApproveNext, PayoutOps)
  \/ Sched(PayoutNext(PayoutUsers), PayoutOps)
  \/ Sched(TxNext, PayoutOps)

PayoutSpec == Init /\ [][PayoutSpecNext]_vars

\* one request at a time: withdrawals with their approvals and rejections,
\* payout accounts added and removed by both users; the gateway delivers
\* settlement only, no order is cancelled and no dispute is opened
WithdrawNext ==
  \/ Sched(OrderNext(SettlementOnly, NoDeadline), {})
  \/ Sched(WorkNext, {})
  \/ Sched(ApproveNext, {})
  \/ Sched(PayoutNext(Users), {})
  \/ Sched(PayoutAdminNext, {})
  \/ Sched(TxNext, {})

WithdrawSpec == Init /\ [][WithdrawNext]_vars

\* one request at a time; the notification sink starts failing at some
\* point and keeps failing; the gateway delivers settlement only
NotifyNext ==
  \/ Sched(OrderNext(SettlementOnly, NoDeadline), {})
  \/ Sched(WorkNext, {})
  \/ Sched(ApproveNext, {})
  \/ Sched(DisputeNext, {})
  \/ Sched(PayoutNext(PayoutUsers), {})
  \/ Sched(SinkNext({"up"}), {})
  \/ Sched(TxNext, {})

NotifySpec == Init /\ [][NotifyNext]_vars

\* withdrawals concurrent with removals of payout accounts
AccountOps == {"payout", "remove_account"}

AccountSpecNext ==
  \/ Sched(OrderNext(SettlementOnly, NoDeadline), AccountOps)
  \/ Sched(WorkNext, AccountOps)
  \/ Sched(ApproveNext, AccountOps)
  \/ Sched(PayoutNext(PayoutUsers), AccountOps)
  \/ Sched(PayoutAdminNext, AccountOps)
  \/ Sched(TxNext, AccountOps)

AccountSpec == Init /\ [][AccountSpecNext]_vars

\* ------------------------------------------------------------ properties
RECURSIVE SumAmounts(_)
SumAmounts(rows) ==
  IF rows = << >> THEN 0 ELSE Head(rows).amount + SumAmounts(Tail(rows))

\* every row satisfies balanceAfter = balanceBefore + amount
RowsAddUp(rows) ==
  \A i \in 1..Len(rows) :
    rows[i].balanceAfter = rows[i].balanceBefore + rows[i].amount

\* each row's balanceAfter is the next row's balanceBefore
Chained(rows) ==
  \A i \in 1..(Len(rows) - 1) : rows[i].balanceAfter = rows[i + 1].balanceBefore

\* the WalletTransaction rows linked to order o, over all wallets
OrderMovements(o) ==
  UNION { {<<u, i>> : i \in {j \in DOMAIN ledger[u] : ledger[u][j].orderId = o}} :
          u \in Users }

\* the ESCROW_RELEASE rows of the seller's ledger
Releases(rows) == {i \in DOMAIN rows : rows[i].type = "ESCROW_RELEASE"}

\* C1: no wallet balance is ever negative; a createTransaction call whose
\* amount would make the balance negative fails, the enclosing transaction
\* is rolled back, and neither step changes a wallet, the ledger or any
\* other row.
C1_NoNegativeBalance ==
  [][ /\ \A u \in Users : wallet'[u].balance >= 0
      /\ \A p \in Procs :
           /\ ( /\ pc[p] = "tx_begin"
                /\ pc'[p] # "tx_begin"
                /\ wallet[TxWalletUser(local[p])].exists
                /\ wallet[TxWalletUser(local[p])].balance
                     + TxAmount(local[p]) < 0 )
              => ( /\ pc'[p] = "tx_rollback"
                   /\ wallet' = wallet
                   /\ ledger' = ledger )
           /\ (pc[p] = "tx_rollback" /\ pc'[p] # "tx_rollback")
              => (pc'[p] = "idle" /\ UNCHANGED dbVars)
    ]_vars

\* a createPayoutRequest whose createTransaction has thrown: the balance it
\* read is smaller than the amount
C1_Witness ==
  \E p \in Procs :
    /\ pc[p] = "tx_rollback"
    /\ local[p].op = "payout"
    /\ local[p].error = "InsufficientFunds"
    /\ local[p].balanceBefore + local[p].amount < 0
    /\ wallet[local[p].u].balance = local[p].balanceBefore

\* C2: with one request at a time, every wallet's balance is the sum of the
\* amounts of its rows, every row has balanceAfter = balanceBefore + amount,
\* consecutive rows are chained, a balance changes only in a step that
\* appends exactly one row, and rows are never modified or deleted.
C2_BalanceConservation ==
  [][ \A u \in Users :
        /\ wallet'[u].balance = SumAmounts(ledger'[u])
        /\ RowsAddUp(ledger'[u])
        /\ Chained(ledger'[u])
        /\ Len(ledger'[u]) >= Len(ledger[u])
        /\ SubSeq(ledger'[u], 1, Len(ledger[u])) = ledger[u]
        /\ wallet'[u].balance # wallet[u].balance
             => Len(ledger'[u]) = Len(ledger[u]) + 1
        /\ Len(ledger'[u]) # Len(ledger[u])
             => /\ Len(ledger'[u]) = Len(ledger[u]) + 1
                /\ wallet'[u].balance
                     = wallet[u].balance + ledger'[u][Len(ledger'[u])].amount
    ]_vars

\* the seller's wallet after an escrow release, a payout request and the
\* rejection of that request
C2_Witness ==
  /\ Len(ledger[Seller]) = 3
  /\ ledger[Seller][1].type = "ESCROW_RELEASE"
  /\ ledger[Seller][2].type = "PAYOUT_REQUEST"
  /\ ledger[Seller][3].type = "PAYOUT_REJECTED"
  /\ wallet[Seller].balance = AmountToSeller(order["o1"].price)

\* C3: concurrent money-moving transactions on one wallet lose no update:
\* the balance is the sum of the amounts of the committed rows, and every
\* row's balanceBefore is the balance its predecessor left.
C3_NoLostUpdate ==
  \A u \in Users :
    /\ wallet[u].balance = SumAmounts(ledger[u])
    /\ Chained(ledger[u])
    /\ ledger[u] # << >> => ledger[u][Len(ledger[u])].balanceAfter = wallet[u].balance

\* two createPayoutRequest transactions on the seller's wallet that have
\* both read the balance and not yet written it
C3_Witness ==
  \A p \in Procs :
    /\ pc[p] = "ct_write"
    /\ local[p].op = "payout"
    /\ local[p].u = Seller
    /\ local[p].balanceBefore = wallet[Seller].balance

\* C4: at most one ledger movement is ever committed for an order.
C4_SingleMovement ==
  \A o \in Orders : Cardinality(OrderMovements(o)) <= 1

\* two approveWork requests for the same order that have both passed the
\* status guard
C4_Witness ==
  \A p \in Procs :
    /\ pc[p] \in {"tx_begin", "ct_write"}
    /\ local[p].op = "approve"
    /\ local[p].o = "o1"

\* C5: a delivery that maps to SETTLEMENT, arriving when the Payment is
\* SETTLEMENT and the order is paid, changes neither Payment nor Order nor
\* the notifications and emits nothing.
C5_SecondDeliveryNoEffect ==
  [][ \A p \in Procs :
        ( /\ pc[p] = "webhook_update"
          /\ pc'[p] # "webhook_update"
          /\ local[p].newStatus = "SETTLEMENT"
          /\ payment[local[p].o].status = "SETTLEMENT"
          /\ order[local[p].o].isPaid )
        => ( /\ payment' = payment
             /\ order' = order
             /\ notifications' = notifications
             /\ events' = events )
    ]_vars

\* the second capture of a paid order is past the idempotency check
C5_Witness ==
  \E p \in Procs :
    /\ pc[p] = "webhook_update"
    /\ local[p].newStatus = "SETTLEMENT"
    /\ payment[local[p].o] = [status |-> "SETTLEMENT", updates |-> 1]
    /\ order[local[p].o].isPaid
    /\ events[local[p].o] = 0
    /\ notifications["ORDER_PAID"] = 1

\* C6: the seller gets at most one 'order paid' notification per paid order
\* (the notification is created in the transaction that flips the order to
\* PAID_ESCROW).
C6_SingleSettlement ==
  notifications["ORDER_PAID"] <= Cardinality({o \in Orders : order[o].isPaid})

\* two payment.settled handlers for the same order that have both read it
\* as unpaid
C6_Witness ==
  \A p \in Procs :
    /\ pc[p] = "settle_tx"
    /\ local[p].o = "o1"
    /\ ~order["o1"].isPaid

\* C7: no state has a Payment SETTLEMENT whose order is not paid.
C7_AtomicSettlement ==
  \A o \in Orders : payment[o].status = "SETTLEMENT" => order[o].isPaid

\* the webhook has been answered, the handler of its event has not run
C7_Witness ==
  \E o \in Orders :
    /\ payment[o].status = "SETTLEMENT"
    /\ events[o] = 1
    /\ order[o].status = "WAITING_PAYMENT"
    /\ \A p \in Procs : pc[p] = "idle"

\* C8: a paid order has a Payment whose status is SETTLEMENT.
C8_PaidImpliesSettled ==
  \A o \in Orders : order[o].isPaid => payment[o].status = "SETTLEMENT"

\* a later webhook for a paid order that maps to PENDING or CANCELLED
C8_Witness ==
  \E p \in Procs :
    /\ pc[p] = "webhook_update"
    /\ order[local[p].o].isPaid
    /\ payment[local[p].o].status = "SETTLEMENT"
    /\ local[p].newStatus \in {"PENDING", "CANCELLED"}

\* the edges of the order state machine; the last five are those of
\* creation and of the dispute operations
LegalEdges ==
  { <<"DRAFT", "WAITING_PAYMENT">>, <<"WAITING_PAYMENT", "PAID_ESCROW">>,
    <<"PAID_ESCROW", "IN_PROGRESS">>, <<"IN_PROGRESS", "DELIVERED">>,
    <<"DELIVERED", "REVISION">>, <<"REVISION", "DELIVERED">>,
    <<"DELIVERED", "COMPLETED">>, <<"DRAFT", "CANCELLED">>,
    <<"WAITING_PAYMENT", "CANCELLED">>, <<"PAID_ESCROW", "CANCELLED">> }
  \cup { <<"ABSENT", "DRAFT">>, <<"DISPUTED", "COMPLETED">>,
         <<"DISPUTED", "RESOLVED">> }
  \cup { <<st, "DISPUTED">> : st \in {"IN_PROGRESS", "DELIVERED", "REVISION"} }

\* C9: every change of an order's status is a legal edge.
C9_LegalEdges ==
  [][ \A o \in Orders :
        order'[o].status # order[o].status
          => <<order[o].status, order'[o].status>> \in LegalEdges
    ]_vars

\* a request that has passed its status guard while the order has moved on
C9_Witness ==
  \E p \in Procs :
    /\ pc[p] = "settle_tx"
    /\ order[local[p].o].status = "IN_PROGRESS"

\* C10: once an order is COMPLETED, CANCELLED or RESOLVED its status never
\* changes and no ledger movement is added for it.
C10_Terminal ==
  [][ \A o \in Orders :
        order[o].status \in TerminalStatus
          => /\ order'[o].status = order[o].status
             /\ OrderMovements(o)' = OrderMovements(o)
    ]_vars

\* a second approveWork past its status guard when the order is COMPLETED
C10_Witness ==
  \E p \in Procs :
    /\ pc[p] = "tx_begin"
    /\ local[p].op = "approve"
    /\ order[local[p].o].status = "COMPLETED"

\* C11: revisionCount <= maxRevisions for every order in every reachable
\* state, also when requestRevision calls for one order overlap.
C11_RevisionQuota ==
  \A o \in Orders : order[o].revisionCount <= order[o].maxRevisions

\* two requestRevision calls for the same DELIVERED order that have both
\* passed the quota check with one revision left
C11_Witness ==
  /\ \A p \in Procs :
       /\ pc[p] = "order_update"
       /\ local[p].op = "revision"
       /\ local[p].o = "o1"
  /\ order["o1"].status = "DELIVERED"
  /\ order["o1"].revisionCount + 1 = order["o1"].maxRevisions

\* C12: with one request at a time, a requestRevision on a DELIVERED order
\* succeeds exactly while revisionCount < maxRevisions: it adds 1 to
\* revisionCount, appends the note and moves the order to REVISION, so
\* revisionCount never exceeds maxRevisions and counts the notes; once the
\* quota is used up the call is rejected with RevisionQuotaExhausted and
\* the order is unchanged.
C12_RevisionSequence ==
  [][ \A o \in Orders :
        /\ order'[o].revisionCount <= order'[o].maxRevisions
        /\ Len(order'[o].revisionNotes) = order'[o].revisionCount
        /\ order'[o].revisionCount # order[o].revisionCount
             => /\ order[o].status = "DELIVERED"
                /\ order[o].revisionCount < order[o].maxRevisions
                /\ order'[o].revisionCount = order[o].revisionCount + 1
                /\ order'[o].revisionNotes
                     = Append(order[o].revisionNotes, "note")
                /\ order'[o].status = "REVISION"
        /\ \A p \in Procs :
             /\ ( /\ pc[p] = "idle" /\ pc'[p] # "idle"
                  /\ local'[p].op = "revision" /\ local'[p].o = o
                  /\ order[o].status = "DELIVERED" )
                => /\ order' = order
                   /\ IF order[o].revisionCount < order[o].maxRevisions
                        THEN pc'[p] = "order_update"
                        ELSE /\ pc'[p] = "rejected"
                             /\ local'[p].error = "RevisionQuotaExhausted"
             /\ ( /\ pc[p] = "rejected" /\ pc'[p] # "rejected" )
                => (pc'[p] = "idle" /\ UNCHANGED dbVars)
    ]_vars

\* the quota of the order is used up, the work was delivered again and a
\* further requestRevision has been rejected
C12_Witness ==
  \E p \in Procs :
    /\ pc[p] = "rejected"
    /\ local[p].op = "revision"
    /\ local[p].error = "RevisionQuotaExhausted"
    /\ order[local[p].o].status = "DELIVERED"
    /\ order[local[p].o].maxRevisions >= 1
    /\ order[local[p].o].revisionCount = order[local[p].o].maxRevisions
    /\ Len(order[local[p].o].revisionNotes) = order[local[p].o].maxRevisions

\* C13: the step that completes an order of price p adds exactly p minus 10%
\* to the seller's balance and appends exactly one ESCROW_RELEASE row of
\* that amount linked to the order to the seller's ledger; the buyer's
\* wallet and ledger are unchanged.
C13_FeeSplit ==
  [][ \A o \in Orders :
        (order[o].status # "COMPLETED" /\ order'[o].status = "COMPLETED")
        => /\ 10 * (wallet'[Seller].balance - wallet[Seller].balance)
                = 9 * order[o].price
           /\ Len(ledger'[Seller]) = Len(ledger[Seller]) + 1
           /\ SubSeq(ledger'[Seller], 1, Len(ledger[Seller])) = ledger[Seller]
           /\ LET row == ledger'[Seller][Len(ledger'[Seller])]
              IN /\ row.type = "ESCROW_RELEASE"
                 /\ 10 * row.amount = 9 * order[o].price
                 /\ row.orderId = o
           /\ wallet'[Buyer] = wallet[Buyer]
           /\ ledger'[Buyer] = ledger[Buyer]
    ]_vars

\* an order of price 100,000 approved by its buyer: 90,000 in the seller's
\* wallet, one ESCROW_RELEASE of 90,000, nothing in the buyer's ledger
C13_Witness ==
  /\ order["o1"].status = "COMPLETED"
  /\ order["o1"].price = 100000
  /\ dispute["o1"].status = "NONE"
  /\ wallet[Seller].balance = 90000
  /\ Len(ledger[Seller]) = 1
  /\ ledger[Seller][1].type = "ESCROW_RELEASE"
  /\ ledger[Seller][1].amount = 90000
  /\ ledger[Seller][1].orderId = "o1"
  /\ ledger[Buyer] = << >>

\* C14: completeOrder is all-or-nothing.  In every step Service.totalOrders,
\* User.totalOrdersCompleted and the number of ESCROW_RELEASE rows grow by
\* the same amount, 0 or 1; when they grow the order of the new row is
\* COMPLETED and the seller's balance is the row's balanceAfter; an order
\* becomes COMPLETED only in such a step; and a completeOrder whose
\* transaction has thrown ends with every row as it was.
C14_CompleteAtomic ==
  [][ LET dT == service'.totalOrders - service.totalOrders
          dS == sellerStats' - sellerStats
          dR == Cardinality(Releases(ledger'[Seller]))
                  - Cardinality(Releases(ledger[Seller]))
      IN /\ dT = dS /\ dS = dR /\ dR \in {0, 1}
         /\ dR = 1 =>
              LET row == ledger'[Seller][Len(ledger'[Seller])]
              IN /\ row.type = "ESCROW_RELEASE"
                 /\ order'[row.orderId].status = "COMPLETED"
                 /\ wallet'[Seller].balance = row.balanceAfter
         /\ \A o \in Orders :
              (order[o].status # "COMPLETED" /\ order'[o].status = "COMPLETED")
                => dR = 1
         /\ \A p \in Procs :
              ( /\ pc[p] \in {"tx_begin", "tx_rollback"}
                /\ local[p].op \in {"approve", "release"}
                /\ pc'[p] # pc[p]
                /\ pc'[p] \in {"tx_rollback", "idle"} )
              => UNCHANGED dbVars
    ]_vars

\* approveWork of a DELIVERED order whose completeOrder transaction has
\* thrown at the wallet lookup, after its three UPDATE statements
C14_Witness ==
  \E p \in Procs :
    /\ pc[p] = "tx_rollback"
    /\ local[p].op = "approve"
    /\ <<OrderRow(local[p].o), p>> \in locks
    /\ order[local[p].o].status = "DELIVERED"
    /\ service.totalOrders = 0
    /\ sellerStats = 0
    /\ ledger[Seller] = << >>

\* C15: a cancelOrder call by the buyer on a DRAFT, WAITING_PAYMENT or
\* PAID_ESCROW order, or by the seller on a PAID_ESCROW order, passes the
\* status check and goes on to write CANCELLED; a call in any other
\* role/status combination is rejected with every row unchanged; and an
\* order becomes CANCELLED only from DRAFT, WAITING_PAYMENT or PAID_ESCROW.
C15_CancelRules ==
  [][ /\ \A p \in Procs :
           (pc[p] = "idle" /\ pc'[p] # "idle" /\ local'[p].op = "cancel")
           => LET st == order[local'[p].o].status
                  role == local'[p].role
              IN IF \/ role = "buyer"
                       /\ st \in {"DRAFT", "WAITING_PAYMENT", "PAID_ESCROW"}
                    \/ role = "seller" /\ st = "PAID_ESCROW"
                   THEN pc'[p] \in {"order_update", "tx_begin"}
                   ELSE pc'[p] = "rejected" /\ UNCHANGED dbVars
      /\ \A o \in Orders :
           (order[o].status # "CANCELLED" /\ order'[o].status = "CANCELLED")
           => order[o].status \in {"DRAFT", "WAITING_PAYMENT", "PAID_ESCROW"}
    ]_vars

\* the buyer's cancelOrder on a DRAFT order has been rejected
C15_Witness ==
  \E p \in Procs :
    /\ pc[p] = "rejected"
    /\ local[p].op = "cancel"
    /\ local[p].role = "buyer"
    /\ local[p].error = "NotCancellable"
    /\ order[local[p].o].status = "DRAFT"

C17_Snapshot ==
  [][ \A o \in Orders :
        /\ (order[o].status = "ABSENT" /\ order'[o].status # "ABSENT")
             => /\ order'[o].title = service.title
                /\ order'[o].price = service.price
                /\ order'[o].deliveryTime = service.deliveryTime
                /\ order'[o].maxRevisions = service.revisions
        /\ order[o].status # "ABSENT"
             => /\ order'[o].title = order[o].title
                /\ order'[o].price = order[o].price
                /\ order'[o].deliveryTime = order[o].deliveryTime
                /\ order'[o].maxRevisions = order[o].maxRevisions
        /\ (order[o].status # "COMPLETED" /\ order'[o].status = "COMPLETED")
             => 10 * (wallet'[Seller].balance - wallet[Seller].balance)
                  = 9 * order[o].price
        /\ (order[o].status # "RESOLVED" /\ order'[o].status = "RESOLVED")
             => wallet'[Buyer].balance - wallet[Buyer].balance = order[o].price
        /\ \A p \in Procs :
             ( /\ pc[p] = "idle" /\ pc'[p] # "idle"
               /\ local'[p].op = "revision" /\ local'[p].o = o
               /\ order[o].status = "DELIVERED" )
             => ( pc'[p] = "order_update"
                    <=> order[o].revisionCount < order[o].maxRevisions )
    ]_vars

\* the service was edited after the order was created; approveWork has
\* computed the payout of the order
C17_Witness ==
  \E p \in Procs :
    /\ pc[p] = "ct_write"
    /\ local[p].op = "approve"
    /\ order[local[p].o].price = 100000
    /\ order[local[p].o].title = "t1"
    /\ order[local[p].o].maxRevisions = MaxRevisions
    /\ service.price = 150000
    /\ service.title = "t2"
    /\ service.revisions = 0
    /\ local[p].amount = 90000

\* C18: an order is created only when the service row exists, is active
\* with status ACTIVE, the buyer is not the service's seller and the
\* deadline is not in the past; the new order is DRAFT, unpaid, with
\* revisionCount 0; a create that fails creates no order and changes no
\* row.
C18_CreatePreconditions ==
  [][ /\ \A o \in Orders :
           (order[o].status = "ABSENT" /\ order'[o].status # "ABSENT")
           => /\ order'[o].serviceId = "s1"
              /\ service.isActive
              /\ service.status = "ACTIVE"
              /\ order'[o].buyerId # service.sellerId
              /\ order'[o].dueDate # "past"
              /\ order'[o].status = "DRAFT"
              /\ order'[o].isPaid = FALSE
              /\ order'[o].revisionCount = 0
      /\ \A p \in Procs :
           ( /\ pc[p] # pc'[p]
             /\ \/ pc'[p] = "rejected" /\ local'[p].op = "create"
                \/ pc[p] = "rejected" /\ local[p].op = "create" )
           => UNCHANGED dbVars
    ]_vars

\* a create for the service after the seller has switched it off has been
\* rejected; there is no order
C18_Witness ==
  \E p \in Procs :
    /\ pc[p] = "rejected"
    /\ local[p].op = "create"
    /\ local[p].error = "ServiceUnavailable"
    /\ ~service.isActive
    /\ service.status = "ACTIVE"
    /\ \A o \in Orders : order[o].status = "ABSENT"

\* C19: no operation fails because the wallet it needs does not exist yet:
\* the first access creates the wallet with balance 0, so no money-moving
\* transaction is rolled back at its wallet lookup, and a wallet that comes
\* into existence has balance 0.
C19_LazyWallet ==
  [][ /\ \A p \in Procs :
           pc'[p] = "tx_rollback" => local'[p].error # "NotFound"
      /\ \A u \in Users :
           (~wallet[u].exists /\ wallet'[u].exists) => wallet'[u].balance = 0
    ]_vars

\* approveWork of a DELIVERED order whose seller has never opened the
\* wallet: completeOrder has thrown at the wallet lookup
C19_Witness ==
  \E p \in Procs :
    /\ pc[p] = "tx_rollback"
    /\ local[p].op = "approve"
    /\ local[p].error = "NotFound"
    /\ ~wallet[Seller].exists
    /\ order[local[p].o].status = "DELIVERED"
    /\ order[local[p].o].isPaid

\* C20: when getWalletByUserId calls for a user without a wallet overlap,
\* every call succeeds and the user has one wallet with balance 0
\* afterwards.
C20_ConcurrentWallet ==
  /\ \A p \in Procs : ~(pc[p] = "rejected" /\ local[p].op = "wallet")
  /\ \A u \in Users :
       (wallet[u].exists /\ ledger[u] = << >>) => wallet[u].balance = 0

\* two getWalletByUserId calls for the buyer have both found no wallet
C20_Witness ==
  /\ \A p \in Procs :
       /\ pc[p] = "wallet_create"
       /\ local[p].u = Buyer
  /\ ~wallet[Buyer].exists

\* C21: createPayoutRequest with an amount of at least 50,000, a balance
\* that covers it and a payout account of the caller creates, in one step,
\* one PENDING PayoutRequest and one PAYOUT_REQUEST ledger row of minus the
\* amount linked to it, and lowers the balance by exactly the amount; a call
\* with a smaller amount, too small a balance or an account that is missing
\* or belongs to another user is answered with an error and changes no row.
C21_CreatePayout ==
  [][ /\ \A p \in Procs :
           /\ ( /\ pc[p] = "ct_write" /\ local[p].op = "payout"
                /\ pc'[p] # pc[p] )
                => LET u == local[p].u
                       a == -local[p].amount
                       acct == local[p].accountId
                       i == Len(payouts) + 1
                   IN /\ a >= MinPayout
                      /\ wallet[u].balance >= a
                      /\ accounts[acct].exists /\ accounts[acct].userId = u
                      /\ payouts' = Append(payouts,
                                           [status |-> "PENDING", amount |-> a,
                                            userId |-> u, accountId |-> acct])
                      /\ wallet'[u].balance = wallet[u].balance - a
                      /\ Len(ledger'[u]) = Len(ledger[u]) + 1
                      /\ SubSeq(ledger'[u], 1, Len(ledger[u])) = ledger[u]
                      /\ LET row == ledger'[u][Len(ledger'[u])]
                         IN /\ row.type = "PAYOUT_REQUEST"
                            /\ row.amount = -a
                            /\ row.payoutRequestId = i
           /\ ( /\ pc[p] = "idle" /\ pc'[p] = "tx_begin"
                /\ local'[p].op = "payout" )
                => /\ -local'[p].amount >= MinPayout
                   /\ wallet[local'[p].u].balance >= -local'[p].amount
                   /\ accounts[local'[p].accountId].exists
                   /\ accounts[local'[p].accountId].userId = local'[p].u
           /\ ( /\ pc[p] = "idle" /\ pc'[p] = "rejected"
                /\ local'[p].op = "payout" )
                => /\ UNCHANGED dbVars
                   /\ local'[p].error \in
                        {"BelowMinimum", "NotFound", "InsufficientBalance",
                         "AccountNotFound", "Forbidden"}
           /\ ( /\ pc[p] = "rejected" /\ local[p].op = "payout"
                /\ pc'[p] # pc[p] )
                => UNCHANGED dbVars
      /\ Len(payouts') > Len(payouts)
           => \E p \in Procs : /\ pc[p] = "ct_write" /\ local[p].op = "payout"
                               /\ pc'[p] # pc[p]
    ]_vars

C21_Witness ==
  /\ Len(payouts) = 1
  /\ payouts[1].status = "PENDING"
  /\ payouts[1].amount = 50000
  /\ wallet[Seller].balance = 40000
  /\ \E p \in Procs :
       /\ pc[p] = "rejected" /\ local[p].op = "payout"
       /\ local[p].error = "InsufficientBalance"

\* the rows of the owner's ledger linked to PayoutRequest i
PayoutRows(i) ==
  LET rows == ledger[payouts[i].userId]
  IN {k \in DOMAIN rows : rows[k].payoutRequestId = i}

\* C22: rejecting a payout request of amount a hands back exactly a: the
\* step that sets the request REJECTED is the step that appends one
\* PAYOUT_REJECTED row of +a linked to it, the balance after it is the
\* balance before the request was created plus whatever moved in between,
\* and the ledger of a rejected request holds one PAYOUT_REQUEST of -a and
\* one PAYOUT_REJECTED of +a for it.
C22_RejectRestores ==
  [][ /\ \A i \in DOMAIN payouts :
           LET u == payouts[i].userId
               a == payouts[i].amount
               rows == ledger[u]
               credited ==
                 /\ Len(ledger'[u]) = Len(rows) + 1
                 /\ ledger'[u][Len(rows) + 1].type = "PAYOUT_REJECTED"
                 /\ ledger'[u][Len(rows) + 1].payoutRequestId = i
           IN /\ (payouts[i].status # "REJECTED" /\ payouts'[i].status = "REJECTED")
                   <=> credited
              /\ credited =>
                   /\ payouts[i].status = "PENDING"
                   /\ ledger'[u][Len(rows) + 1].amount = a
                   /\ wallet'[u].balance = wallet[u].balance + a
                   /\ \E k \in DOMAIN rows :
                        /\ PayoutRows(i) = {k}
                        /\ rows[k].type = "PAYOUT_REQUEST"
                        /\ rows[k].amount = -a
                        /\ wallet'[u].balance =
                             rows[k].balanceBefore
                               + SumAmounts(SubSeq(rows, k + 1, Len(rows)))
      /\ \A i \in DOMAIN payouts' :
           payouts'[i].status = "REJECTED"
             => SumAmounts([k \in 1..Len(ledger'[payouts'[i].userId]) |->
                              IF ledger'[payouts'[i].userId][k].payoutRequestId = i
                                THEN ledger'[payouts'[i].userId][k]
                                ELSE [amount |-> 0]]) = 0
    ]_vars

C22_Witness ==
  /\ Len(payouts) = 1
  /\ payouts[1].status = "REJECTED"
  /\ wallet[Seller].balance = 90000
  /\ Cardinality(PayoutRows(1)) = 2

\* C23: approvePayout sets the PayoutRequest COMPLETED and moves no money:
\* the step changes that one status and adds the seller's notification,
\* every wallet balance and every ledger stay as they were, and no request
\* becomes COMPLETED in any other way.
C23_ApproveNoLedger ==
  [][ ( \/ notifications'["PAYOUT_APPROVED"] # notifications["PAYOUT_APPROVED"]
        \/ \E i \in DOMAIN payouts :
             payouts[i].status # "COMPLETED" /\ payouts'[i].status = "COMPLETED" )
        => /\ \E i \in DOMAIN payouts :
                payouts' = [payouts EXCEPT ![i].status = "COMPLETED"]
           /\ wallet' = wallet
           /\ ledger' = ledger
           /\ UNCHANGED <<order, payment, dispute, service, sellerStats,
                          accounts>>
    ]_vars

C23_Witness ==
  /\ Len(payouts) = 1
  /\ payouts[1].status = "COMPLETED"
  /\ notifications["PAYOUT_APPROVED"] = 1
  /\ wallet[Seller].balance = 40000
  /\ Len(ledger[Seller]) = 2

\* C24: no PENDING PayoutRequest ever points at a deleted payout account,
\* also when removePayoutAccount overlaps a createPayoutRequest for the
\* account: an account is deleted only in a step before which no request
\* against it is PENDING, and a removal refused for a pending request or by
\* the foreign key changes no row.
C24_PendingKeepsAccount ==
  [][ /\ \A i \in DOMAIN payouts' :
           payouts'[i].status = "PENDING"
             => accounts'[payouts'[i].accountId].exists
      /\ \A a \in AccountIds :
           (accounts[a].exists /\ ~accounts'[a].exists) => PendingFor(a) = {}
      /\ \A p \in Procs :
           ( /\ pc'[p] = "rejected" /\ pc[p] # "rejected"
             /\ local'[p].op = "remove_account" )
             => UNCHANGED dbVars
    ]_vars

C24_Witness ==
  \E p \in Procs :
    /\ pc[p] = "rejected"
    /\ local[p].op = "remove_account"
    /\ local[p].error = "ForeignKeyViolation"
    /\ PendingFor(local[p].accountId) # {}
    /\ accounts[local[p].accountId].exists

\* C25: a resolveDispute call on a dispute that is already RESOLVED is
\* answered with an error and changes no row; a resolved dispute keeps its
\* resolution, its order keeps its status, and the ledger holds exactly one
\* movement for the order.
C25_ResolveOnce ==
  [][ /\ \A o \in Orders :
           /\ dispute[o].status = "RESOLVED"
                => /\ dispute'[o] = dispute[o]
                   /\ order'[o] = order[o]
                   /\ OrderMovements(o)' = OrderMovements(o)
           /\ dispute'[o].status = "RESOLVED"
                => Cardinality(OrderMovements(o)') = 1
      /\ \A p \in Procs :
           /\ ( /\ pc[p] = "idle" /\ pc'[p] = "rejected"
                /\ local'[p].op = "resolve" )
                => /\ dispute[local'[p].o].status = "RESOLVED"
                   /\ UNCHANGED dbVars
           /\ ( /\ pc[p] = "idle" /\ pc'[p] = "tx_begin"
                /\ local'[p].op \in {"refund", "release"} )
                => dispute[local'[p].o].status = "OPEN"
    ]_vars

C25_Witness ==
  \E p \in Procs :
    /\ pc[p] = "rejected"
    /\ local[p].op = "resolve"
    /\ local[p].error = "AlreadyResolved"
    /\ dispute[local[p].o].status = "RESOLVED"
    /\ Cardinality(OrderMovements(local[p].o)) = 1

\* C26: resolveDispute with REFUND_TO_BUYER on an OPEN dispute commits in
\* one step: dispute RESOLVED with that resolution, order RESOLVED, the
\* buyer's balance raised by the full order price through one DISPUTE_REFUND
\* row linked to the order; the seller's wallet and ledger, Service.totalOrders
\* and User.totalOrdersCompleted stay as they were.  No order becomes
\* RESOLVED in any other step.
C26_RefundToBuyer ==
  [][ /\ \A p \in Procs :
           ( /\ pc[p] = "ct_write" /\ local[p].op = "refund"
             /\ pc'[p] # pc[p] )
             => LET o == local[p].o
                    rows == ledger[Buyer]
                IN /\ dispute[o].status = "OPEN"
                   /\ dispute'[o] = [status |-> "RESOLVED",
                                     resolution |-> "REFUND_TO_BUYER"]
                   /\ order'[o] = [order[o] EXCEPT !.status = "RESOLVED"]
                   /\ wallet'[Buyer].balance =
                        wallet[Buyer].balance + order[o].price
                   /\ Len(ledger'[Buyer]) = Len(rows) + 1
                   /\ SubSeq(ledger'[Buyer], 1, Len(rows)) = rows
                   /\ ledger'[Buyer][Len(rows) + 1].type = "DISPUTE_REFUND"
                   /\ ledger'[Buyer][Len(rows) + 1].amount = order[o].price
                   /\ ledger'[Buyer][Len(rows) + 1].orderId = o
                   /\ wallet'[Seller] = wallet[Seller]
                   /\ ledger'[Seller] = ledger[Seller]
                   /\ service'.totalOrders = service.totalOrders
                   /\ sellerStats' = sellerStats
      /\ \A o \in Orders :
           (order[o].status # "RESOLVED" /\ order'[o].status = "RESOLVED")
             => \E p \in Procs :
                  /\ pc[p] = "ct_write" /\ local[p].op = "refund"
                  /\ local[p].o = o /\ pc'[p] # pc[p]
    ]_vars

C26_Witness ==
  \E o \in Orders :
    /\ order[o].status = "RESOLVED"
    /\ dispute[o] = [status |-> "RESOLVED", resolution |-> "REFUND_TO_BUYER"]
    /\ wallet[Buyer].balance = order[o].price
    /\ Len(ledger[Buyer]) = 1
    /\ service.totalOrders = 0

\* what completing order o does to the order, the statistics and the
\* seller's wallet
CompletionEffect(o) ==
  /\ order'[o] = [order[o] EXCEPT !.status = "COMPLETED"]
  /\ service' = [service EXCEPT !.totalOrders = @ + 1]
  /\ sellerStats' = sellerStats + 1
  /\ wallet'[Seller].balance =
       wallet[Seller].balance
         + (order[o].price - (order[o].price * PlatformFeePercent) \div 100)
  /\ Len(ledger'[Seller]) = Len(ledger[Seller]) + 1
  /\ SubSeq(ledger'[Seller], 1, Len(ledger[Seller])) = ledger[Seller]
  /\ ledger'[Seller][Len(ledger'[Seller])].type = "ESCROW_RELEASE"
  /\ ledger'[Seller][Len(ledger'[Seller])].orderId = o
  /\ ledger'[Seller][Len(ledger'[Seller])].amount
       = wallet'[Seller].balance - wallet[Seller].balance
  /\ wallet'[Buyer] = wallet[Buyer]
  /\ ledger'[Buyer] = ledger[Buyer]

\* C27: resolveDispute with RELEASE_TO_SELLER does to the order, the
\* statistics and the seller's wallet exactly what approveWork does: the
\* committing step of either request sets the order COMPLETED, adds 1 to
\* Service.totalOrders and to User.totalOrdersCompleted and credits the
\* seller the price minus the 10% fee, so from equal states both end in
\* equal states.
C27_ReleaseAsApprove ==
  [][ \A p \in Procs :
        ( /\ pc[p] = "ct_write"
          /\ local[p].op \in {"approve", "release"}
          /\ pc'[p] # pc[p] )
          => CompletionEffect(local[p].o)
    ]_vars

C27_Witness ==
  \E o \in Orders :
    /\ dispute[o] = [status |-> "RESOLVED", resolution |-> "RELEASE_TO_SELLER"]
    /\ order[o].status = "COMPLETED"
    /\ service.totalOrders = 1
    /\ sellerStats = 1
    /\ wallet[Seller].balance = 90000

\* C28: resolveDispute is one atomic action: while the Dispute is OPEN its
\* order is still DISPUTED and no ledger row is linked to the order, and
\* once the Dispute is RESOLVED the order is COMPLETED or RESOLVED and
\* exactly one ledger row is linked to it.
C28_ResolveAtomic ==
  \A o \in Orders :
    /\ dispute[o].status = "OPEN"
         => order[o].status = "DISPUTED" /\ OrderMovements(o) = {}
    /\ dispute[o].status = "RESOLVED"
         => /\ order[o].status \in {"COMPLETED", "RESOLVED"}
            /\ Cardinality(OrderMovements(o)) = 1

C28_Witness ==
  \E p \in Procs :
    /\ pc[p] = "resolve_finish"
    /\ local[p].resolution = "RELEASE_TO_SELLER"
    /\ dispute[local[p].o].status = "OPEN"
    /\ order[local[p].o].status = "COMPLETED"
    /\ wallet[Seller].balance = 90000
    /\ sellerStats = 1

\* C29: a failing notification sink never undoes the operation that called
\* it: whatever the sink does, the step that ends the settlement handling
\* sets the order PAID_ESCROW and the payment SETTLEMENT, the one that ends
\* rejectPayout sets the request REJECTED and credits the wallet, the one
\* that ends resolveDispute sets the dispute RESOLVED (and, for a refund,
\* the order RESOLVED), the one that ends deliverWork sets the order
\* DELIVERED, and each of them answers the request.
C29_SinkFailureHarmless ==
  [][ \A p \in Procs :
        LET l == local[p]
            step == pc'[p] # pc[p]
        IN /\ (pc[p] = "settle_tx" /\ payment[l.o].status # "NONE" /\ step)
                => /\ order'[l.o].status = "PAID_ESCROW"
                   /\ order'[l.o].isPaid
                   /\ payment'[l.o].status = "SETTLEMENT"
                   /\ pc'[p] = "idle"
           /\ (pc[p] = "ct_write" /\ l.op = "reject" /\ step)
                => /\ payouts'[l.payoutId].status = "REJECTED"
                   /\ wallet'[l.u].balance = wallet[l.u].balance + l.amount
                   /\ pc'[p] = "idle"
           /\ (pc[p] = "ct_write" /\ l.op = "refund" /\ step)
                => /\ dispute'[l.o].status = "RESOLVED"
                   /\ order'[l.o].status = "RESOLVED"
                   /\ wallet'[l.u].balance = wallet[l.u].balance + l.amount
                   /\ pc'[p] = "idle"
           /\ (pc[p] = "resolve_finish" /\ step)
                => /\ dispute'[l.o].status = "RESOLVED"
                   /\ pc'[p] = "idle"
           /\ (pc[p] = "order_update" /\ l.op = "deliver" /\ step)
                => /\ order'[l.o].status = "DELIVERED"
                   /\ pc'[p] = "idle"
    ]_vars

C29_Witness ==
  \E p \in Procs :
    /\ sink = "statement_fails"
    /\ pc[p] = "tx_aborted"
    /\ local[p].op = "reject"
    /\ payouts[local[p].payoutId].status = "PENDING"
    /\ wallet[local[p].u].balance = 40000

\* C30: a webhook whose signature_key does not match is logged and then
\* processed like one whose signature matches: the step the handler takes
\* for a payload is, but for the log, the step it takes for every payload
\* that differs from it in the signature_key only (same Payment and Order
\* rows, same statement to run next, same answer), and a mismatch is on the
\* log afterwards.
C30_SignatureBypass ==
  [][ \A p \in Procs, o \in Orders, payload \in Payloads \cup Forged(Payloads) :
        HandlePaymentWebhook(p, o, payload)
          => /\ \A k \in SignatureKeys :
                  WebhookSteps(p, o, [payload EXCEPT !.signature_key = k])
             /\ pc'[p] # "rejected"
             /\ payload.signature_key # VerifySignature => sigLogged'
    ]_vars

C30_Witness ==
  \E o \in Orders :
    /\ sigLogged
    /\ payment[o].status = "SETTLEMENT"
    /\ payment[o].updates = 1
    /\ order[o].status = "PAID_ESCROW"
    /\ order[o].isPaid

\* the PaymentStatus the specification gives for a payload
SpecifiedStatus(payload) ==
  CASE payload.ts = "capture" /\ payload.fraud = "accept" -> "SETTLEMENT"
    [] payload.ts = "settlement" -> "SETTLEMENT"
    [] payload.ts = "capture" /\ payload.fraud = "challenge" -> "PENDING"
    [] payload.ts = "pending" -> "PENDING"
    [] payload.ts \in {"cancel", "deny", "expire"} -> "CANCELLED"

\* C31: a webhook that is applied to an existing Payment leaves it
\* SETTLEMENT for capture with fraud status accept and for settlement,
\* PENDING for capture with fraud status challenge and for pending, and
\* CANCELLED for cancel, deny and expire: the handler computes that status
\* from the payload and its update writes it.
C31_StatusMapping ==
  [][ /\ \A p \in Procs, o \in Orders, payload \in Payloads :
           (HandlePaymentWebhook(p, o, payload) /\ pc'[p] = "webhook_update")
             => /\ local'[p].o = o
                /\ local'[p].newStatus = SpecifiedStatus(payload)
      /\ \A p \in Procs :
           (pc[p] = "webhook_update" /\ pc'[p] # pc[p])
             => /\ payment'[local[p].o].status = local[p].newStatus
                /\ payment'[local[p].o].updates = payment[local[p].o].updates + 1
    ]_vars

C31_Witness ==
  \E o \in Orders :
    /\ payment[o].status = "CANCELLED"
    /\ payment[o].updates = 2
    /\ order[o].status = "WAITING_PAYMENT"

\* an order operation of the buyer called for order o by user u
BuyerOperation(p, o, u) ==
  \/ ConfirmOrder(p, o, u)
  \/ \E note \in RevisionNotesIn : RequestRevision(p, o, u, note)
  \/ ApproveWork(p, o, u)
  \/ CancelOrder(p, o, u, "buyer")

\* an order operation of the seller called for order o by user u
SellerOperation(p, o, u) ==
  \/ StartWork(p, o, u)
  \/ DeliverWork(p, o, u)
  \/ CancelOrder(p, o, u, "seller")

\* C32: confirmOrder, requestRevision, approveWork and the buyer's cancel
\* called by a user who is not the order's buyer, and startWork,
\* deliverWork and the seller's cancel called by a user who is not the
\* service's seller, fail with NotFound, and neither the call nor the
\* return of its error changes the order, the payment, a wallet or any
\* other row.
C32_OwnershipEnforced ==
  [][ /\ \A p \in Procs, o \in Orders, u \in Users :
           (u # order[o].buyerId /\ BuyerOperation(p, o, u))
             => /\ pc'[p] = "rejected"
                /\ local'[p].error = "NotFound"
                /\ UNCHANGED dbVars
      /\ \A p \in Procs, o \in Orders, u \in Users :
           (u # service.sellerId /\ SellerOperation(p, o, u))
             => /\ pc'[p] = "rejected"
                /\ local'[p].error = "NotFound"
                /\ UNCHANGED dbVars
      /\ \A p \in Procs :
           (pc[p] = "rejected" /\ local[p].error = "NotFound"
              /\ pc'[p] # pc[p])
             => UNCHANGED dbVars
    ]_vars

\* the buyer's call of startWork on the paid order was refused
C32_Witness ==
  \E p \in Procs :
    /\ pc[p] = "rejected"
    /\ local[p].op = "start"
    /\ local[p].error = "NotFound"
    /\ order[local[p].o].status = "PAID_ESCROW"
    /\ order[local[p].o].isPaid

\* C33: findOne on a service that is not ACTIVE or not active returns it
\* only to the seller who owns it or to a viewer with role ADMIN; every
\* other viewer, the anonymous one included, gets the NotFound answer
\* 'Jasa tidak ditemukan' that a call for a non-existent service gets; an
\* ACTIVE and active service is returned to every viewer; the call changes
\* no row.
C33_RestrictedVisibility ==
  [][ \A p \in Procs, id \in ServiceIds, viewerId \in ViewerIds,
         viewerRole \in ViewerRoles :
        FindOne(p, id, viewerId, viewerRole)
          => /\ UNCHANGED dbVars
             /\ IF /\ id = "s1"
                   /\ \/ service.status = "ACTIVE" /\ service.isActive
                      \/ viewerId = service.sellerId
                      \/ viewerRole = "ADMIN"
                  THEN pc'[p] = "service_found"
                  ELSE /\ pc'[p] = "rejected"
                       /\ local'[p].error = "Jasa tidak ditemukan"
                       /\ FindOne(p, "s0", viewerId, viewerRole)
    ]_vars

\* the anonymous view of the PENDING service was refused
C33_Witness ==
  \E p \in Procs :
    /\ pc[p] = "rejected"
    /\ local[p].op = "find_service"
    /\ local[p].u = Undefined
    /\ local[p].role = Undefined
    /\ service.status = "PENDING"

\* C34: a PayoutRequest leaves PENDING at most once and COMPLETED and
\* REJECTED are final: no step changes the status of a request that is
\* REJECTED or COMPLETED, so a REJECTED request never becomes COMPLETED
\* and a COMPLETED request is never REJECTED.
C34_FinalPayoutStatus ==
  [][ \A i \in 1..Len(payouts) :
        payouts[i].status \in {"COMPLETED", "REJECTED"}
          => payouts'[i].status = payouts[i].status
    ]_vars

\* a request that was rejected and refunded is COMPLETED
C34_Witness ==
  \E i \in 1..Len(payouts) :
    /\ payouts[i].status = "COMPLETED"
    /\ \E k \in PayoutRows(i) :
         ledger[payouts[i].userId][k].type = "PAYOUT_REJECTED"

\* the PAYOUT_REJECTED rows of the owner's ledger linked to PayoutRequest i
RejectionRows(i) ==
  {k \in PayoutRows(i) :
     ledger[payouts[i].userId][k].type = "PAYOUT_REJECTED"}

\* C35: the wallet is credited at most once for a rejected request, also
\* when two rejectPayout calls for the same PENDING request overlap: no
\* PayoutRequest has more than one PAYOUT_REJECTED row.
C35_OneRefundPerRequest ==
  \A i \in 1..Len(payouts) : Cardinality(RejectionRows(i)) <= 1

\* a request refunded twice, the balance above what the wallet held before
\* the request
C35_Witness ==
  \E i \in 1..Len(payouts) :
    /\ payouts[i].status = "REJECTED"
    /\ Cardinality(RejectionRows(i)) = 2
    /\ \A p \in Procs : pc[p] = "idle"

\* the WalletTransaction types that credit a wallet from an order
OrderCredits == {"ESCROW_RELEASE", "ESCROW_REFUND", "DISPUTE_REFUND"}

\* what user u has withdrawn or asked to withdraw
Withdrawn(u) ==
  SumAmounts(SelectSeq(payouts,
                       LAMBDA r : /\ r.userId = u
                                  /\ r.status \in {"PENDING", "COMPLETED"}))

\* what the orders have credited to the wallet of user u
Earned(u) ==
  SumAmounts(SelectSeq(ledger[u], LAMBDA r : r.type \in OrderCredits))

\* C36: nobody withdraws more than was earned: for each wallet the amounts
\* of its PayoutRequests that are PENDING or COMPLETED sum to at most the
\* sum of its ESCROW_RELEASE, ESCROW_REFUND and DISPUTE_REFUND credits, also
\* when createPayoutRequest calls overlap.
C36_WithdrawnWithinEarned ==
  \A u \in Users : Withdrawn(u) <= Earned(u)

\* two PENDING requests of 50000 against 90000 earned, no request running
C36_Witness ==
  /\ Len(payouts) = 2
  /\ \A i \in 1..2 : payouts[i].status = "PENDING" /\ payouts[i].amount = 50000
  /\ Earned(Seller) = 90000
  /\ wallet[Seller].balance = 40000
  /\ \A p \in Procs : pc[p] = "idle"

\* C37: an order with isPaid = true is past payment: its status is neither
\* DRAFT nor WAITING_PAYMENT and its Payment is not PENDING, also when a
\* confirmOrder that read the order as WAITING_PAYMENT overlaps the
\* settlement (and a startWork that follows it).
C37_PaidIsPastPayment ==
  \A o \in Orders :
    order[o].isPaid
      => /\ order[o].status \notin {"DRAFT", "WAITING_PAYMENT"}
         /\ payment[o].status # "PENDING"

\* the paid order back in WAITING_PAYMENT with a PENDING Payment, no
\* request running
C37_Witness ==
  \E o \in Orders :
    /\ order[o].isPaid
    /\ order[o].status = "WAITING_PAYMENT"
    /\ payment[o].status = "PENDING"
    /\ \A p \in Procs : pc[p] = "idle"

\* the ESCROW_REFUND rows of the buyer's ledger for the full price of order o
RefundRows(o) ==
  {k \in DOMAIN ledger[order[o].buyerId] :
     LET row == ledger[order[o].buyerId][k]
     IN /\ row.type = "ESCROW_REFUND"
        /\ row.orderId = o
        /\ row.amount = order[o].price}

C39_SettledLeadsToPaid ==
  \A o \in Orders :
    (payment[o].status = "SETTLEMENT" /\ order[o].status = "WAITING_PAYMENT")
      ~> (order[o].status = "PAID_ESCROW" /\ order[o].isPaid)

\* the Payment is SETTLEMENT, its event was consumed by a handler whose
\* transaction failed, the sink works again, the gateway can still deliver
\* webhooks, and the order is unpaid
C39_Witness ==
  \E o \in Orders :
    /\ payment[o].status = "SETTLEMENT"
    /\ payment[o].updates < MaxWebhookUpdates
    /\ order[o].status = "WAITING_PAYMENT"
    /\ ~order[o].isPaid
    /\ events[o] = 0
    /\ sink = "up"
    /\ \A p \in Procs : pc[p] = "idle"

\* C40: an order in WAITING_PAYMENT always has a Payment record:
\* confirmOrder moves the order to WAITING_PAYMENT only together with a
\* created or updated Payment, so an order whose payment link could not be
\* generated is not WAITING_PAYMENT.
C40_WaitingHasPayment ==
  \A o \in Orders :
    order[o].status = "WAITING_PAYMENT" => payment[o].status # "NONE"

\* confirmOrder has ended with the gateway failing: the order is
\* WAITING_PAYMENT without a Payment record
C40_Witness ==
  \E o \in Orders :
    /\ order[o].status = "WAITING_PAYMENT"
    /\ payment[o].status = "NONE"
    /\ \A p \in Procs : pc[p] = "idle"
====
